---- MODULE Spec2Model ----
(***************************************************************************)
(* milstian-http: the request decoder (src/src/request.rs), the header key *)
(* canonicalizer (src/src/lib.rs) and the response encoder                 *)
(* (src/src/response.rs).                                                  *)
(*                                                                         *)
(* Byte buffers and strings are sequences of byte values 0..255.  A Rust   *)
(* index i of a buffer is the TLA+ index i + 1; Slice(s, a, b) is the Rust *)
(* slice s[a..b].  Option values are records with a `some` field.          *)
(***************************************************************************)
EXTENDS Integers, Sequences, FiniteSets, TLC

\* ------------------------------------------------------------------------
\* Bytes and text
\* ------------------------------------------------------------------------

NUL == 0
LF == 10
CR == 13
DASH == 45

\* The printable ASCII characters 32..95 and 97..126.
PrintableLow ==
    " !\"#$%&'()*+,-./0123456789:;<=>?@ABCDEFGHIJKLMNOPQRSTUVWXYZ[\\]^_"

PrintableHigh == "abcdefghijklmnopqrstuvwxyz{|}~"

\* The byte value of a one-character string.
Code(ch) ==
    IF \E i \in 1..Len(PrintableLow) : SubSeq(PrintableLow, i, i) = ch
    THEN 31 + (CHOOSE i \in 1..Len(PrintableLow) : SubSeq(PrintableLow, i, i) = ch)
    ELSE 96 + (CHOOSE i \in 1..Len(PrintableHigh) : SubSeq(PrintableHigh, i, i) = ch)

\* The bytes of an ASCII string literal (b"..." in the source).
Bytes(str) == [i \in 1..Len(str) |-> Code(SubSeq(str, i, i))]

SPACE == Code(" ")
COLON == Code(":")
SEMICOLON == Code(";")
COMMA == Code(",")
EQUALS == Code("=")
AMPERSAND == Code("&")
QUESTION == Code("?")
QUOTE == Code("\"")

CRLF == <<CR, LF>>

None == [some |-> FALSE]
Some(v) == [some |-> TRUE, val |-> v]

\* s[a..b] with Rust (0-based, half-open) indices.
Slice(s, a, b) == SubSeq(s, a + 1, b)

\* s[a..]
SliceFrom(s, a) == SubSeq(s, a + 1, Len(s))

RECURSIVE Flatten(_)
Flatten(ss) == IF ss = <<>> THEN <<>> ELSE Head(ss) \o Flatten(Tail(ss))

\* 0-based position of the first occurrence of byte c in s, or Len(s).
Find(s, c) ==
    IF \E i \in 1..Len(s) : s[i] = c
    THEN (CHOOSE i \in 1..Len(s) : s[i] = c /\ \A j \in 1..(i - 1) : s[j] # c) - 1
    ELSE Len(s)

\* str::split with a one-character pattern: always at least one piece.
RECURSIVE Split(_, _)
RECURSIVE SplitAt(_, _, _)
\* The pieces of s when the first occurrence of c is at position i.
SplitAt(s, c, i) ==
    IF i = Len(s) THEN <<s>>
    ELSE <<Slice(s, 0, i)>> \o Split(SliceFrom(s, i + 1), c)

Split(s, c) == SplitAt(s, c, Find(s, c))

\* The two pieces of s around position i, or s alone when i is past it.
SplitN2At(s, i) ==
    IF i = Len(s) THEN <<s>>
    ELSE <<Slice(s, 0, i), SliceFrom(s, i + 1)>>

\* str::splitn(2, pattern) with a one-character pattern.
SplitN2(s, c) == SplitN2At(s, Find(s, c))

\* str::from_utf8(..).is_ok(): the UTF-8 well-formedness table.
IsCont(s, i, lo, hi) == i <= Len(s) /\ s[i] >= lo /\ s[i] <= hi

\* The number of leading bytes of s below 128.
AsciiRun(s) ==
    IF \E i \in 1..Len(s) : s[i] >= 128
    THEN (CHOOSE i \in 1..Len(s) : s[i] >= 128 /\ \A j \in 1..(i - 1) : s[j] < 128) - 1
    ELSE Len(s)

RECURSIVE IsUtf8(_)
RECURSIVE IsUtf8After(_, _)
\* Well-formedness of s, of which the first `run` bytes are below 128.
IsUtf8After(s, run) ==
    IF run = Len(s) THEN TRUE
    ELSE IF run > 0 THEN IsUtf8(SliceFrom(s, run))
    ELSE LET b == s[1]
         IN  IF b >= 194 /\ b <= 223
                  THEN IsCont(s, 2, 128, 191) /\ IsUtf8(SliceFrom(s, 2))
             ELSE IF b = 224
                  THEN IsCont(s, 2, 160, 191) /\ IsCont(s, 3, 128, 191)
                       /\ IsUtf8(SliceFrom(s, 3))
             ELSE IF (b >= 225 /\ b <= 236) \/ b = 238 \/ b = 239
                  THEN IsCont(s, 2, 128, 191) /\ IsCont(s, 3, 128, 191)
                       /\ IsUtf8(SliceFrom(s, 3))
             ELSE IF b = 237
                  THEN IsCont(s, 2, 128, 159) /\ IsCont(s, 3, 128, 191)
                       /\ IsUtf8(SliceFrom(s, 3))
             ELSE IF b = 240
                  THEN IsCont(s, 2, 144, 191) /\ IsCont(s, 3, 128, 191)
                       /\ IsCont(s, 4, 128, 191) /\ IsUtf8(SliceFrom(s, 4))
             ELSE IF b >= 241 /\ b <= 243
                  THEN IsCont(s, 2, 128, 191) /\ IsCont(s, 3, 128, 191)
                       /\ IsCont(s, 4, 128, 191) /\ IsUtf8(SliceFrom(s, 4))
             ELSE IF b = 244
                  THEN IsCont(s, 2, 128, 143) /\ IsCont(s, 3, 128, 191)
                       /\ IsCont(s, 4, 128, 191) /\ IsUtf8(SliceFrom(s, 4))
             ELSE FALSE

IsUtf8(s) == IsUtf8After(s, AsciiRun(s))

\* The UTF-8 encodings of the characters with the White_Space property,
\* which str::trim removes from both ends.
WhiteSpace ==
    {<<9>>, <<10>>, <<11>>, <<12>>, <<13>>, <<32>>,
     <<194, 133>>, <<194, 160>>, <<225, 154, 128>>,
     <<226, 128, 168>>, <<226, 128, 169>>, <<226, 128, 175>>,
     <<226, 129, 159>>, <<227, 128, 128>>}
    \cup {<<226, 128, b>> : b \in 128..138}

IsPrefix(w, s) == Len(w) <= Len(s) /\ Slice(s, 0, Len(w)) = w
IsSuffix(w, s) == Len(w) <= Len(s) /\ SliceFrom(s, Len(s) - Len(w)) = w

RECURSIVE TrimStart(_)
TrimStart(s) ==
    IF \E w \in WhiteSpace : IsPrefix(w, s)
    THEN LET w == CHOOSE v \in WhiteSpace : IsPrefix(v, s)
         IN  TrimStart(SliceFrom(s, Len(w)))
    ELSE s

RECURSIVE TrimEnd(_)
TrimEnd(s) ==
    IF \E w \in WhiteSpace : IsSuffix(w, s)
    THEN LET w == CHOOSE v \in WhiteSpace : IsSuffix(v, s)
         IN  TrimEnd(Slice(s, 0, Len(s) - Len(w)))
    ELSE s

\* str::trim
Trim(s) == TrimEnd(TrimStart(s))

\* str::trim_matches(c) for a one-byte character c.
RECURSIVE TrimMatches(_, _)
TrimMatches(s, c) ==
    IF s # <<>> /\ Head(s) = c THEN TrimMatches(Tail(s), c)
    ELSE IF s # <<>> /\ s[Len(s)] = c THEN TrimMatches(Slice(s, 0, Len(s) - 1), c)
    ELSE s

\* The number of bytes of the UTF-8 encoded character that starts with b.
CharLen(b) ==
    IF b < 128 THEN 1 ELSE IF b < 224 THEN 2 ELSE IF b < 240 THEN 3 ELSE 4

\* str::chars: the characters of a text, each one as its UTF-8 bytes.
RECURSIVE Chars(_)
Chars(s) ==
    IF s = <<>> THEN <<>>
    ELSE <<Slice(s, 0, CharLen(s[1]))>> \o Chars(SliceFrom(s, CharLen(s[1])))

SHARP_S == <<195, 159>>             \* U+00DF, the German sharp s
CAPITAL_SHARP_S == <<225, 186, 158>> \* U+1E9E

\* char::to_uppercase / char::to_lowercase: the characters a character is
\* converted to, as UTF-8 bytes.  The table holds the ASCII letters and the
\* sharp s, whose upper case is the two letters "SS"; the characters of
\* the texts of this model outside the table have no case.
ToUpper(ch) ==
    IF Len(ch) = 1 /\ ch[1] >= 97 /\ ch[1] <= 122 THEN <<ch[1] - 32>>
    ELSE IF ch = SHARP_S THEN <<83, 83>>
    ELSE ch

ToLower(ch) ==
    IF Len(ch) = 1 /\ ch[1] >= 65 /\ ch[1] <= 90 THEN <<ch[1] + 32>>
    ELSE IF ch = CAPITAL_SHARP_S THEN SHARP_S
    ELSE ch

\* HashMap::insert
Insert(m, k, v) == [x \in DOMAIN m \cup {k} |-> IF x = k THEN v ELSE m[x]]

EmptyMap == <<>>

\* ------------------------------------------------------------------------
\* lib.rs
\* ------------------------------------------------------------------------

\* One part of the key, given its characters: the first one is put in upper
\* case and every other one in lower case.
CapitalizeChars(chars) ==
    Flatten([i \in 1..Len(chars) |->
                IF i = 1 THEN ToUpper(chars[i]) ELSE ToLower(chars[i])])

CapitalizePart(part) == CapitalizeChars(Chars(part))

RECURSIVE JoinParts(_)
JoinParts(parts) ==
    IF Len(parts) = 1 THEN CapitalizePart(parts[1])
    ELSE CapitalizePart(parts[1]) \o <<DASH>> \o JoinParts(Tail(parts))

capitalize_key(word) == JoinParts(Split(word, DASH))

\* ------------------------------------------------------------------------
\* request.rs: value model and line parsers
\* ------------------------------------------------------------------------

\* The string literals of request.rs.
CONNECT == Bytes("CONNECT")
DELETE == Bytes("DELETE")
GET == Bytes("GET")
HEAD == Bytes("HEAD")
OPTIONS == Bytes("OPTIONS")
PATCH == Bytes("PATCH")
PUT == Bytes("PUT")
POST == Bytes("POST")
TRACE == Bytes("TRACE")
HTTP_0_9 == Bytes("HTTP/0.9")
HTTP_1_0 == Bytes("HTTP/1.0")
HTTP_1_1 == Bytes("HTTP/1.1")
HTTP_2_0 == Bytes("HTTP/2.0")
ONE == Bytes("1")
CONTENT_DISPOSITION == Bytes("Content-Disposition")
NAME == Bytes("name")
CONTENT_TYPE == Bytes("Content-Type")
BOUNDARY == Bytes("boundary")

Methods ==
    {"Connect", "Delete", "Get", "Head", "Invalid", "Options", "Patch",
     "Post", "Put", "Trace"}

Protocols == {"Invalid", "V1_0", "V1_1", "V2_0", "V0_9"}

Single(text) == [kind |-> "Single", text |-> text]
KeyValue(key, value) == [kind |-> "KeyValue", key |-> key, value |-> value]

\* HeaderValueParts::get_key_value: the blocks are scanned in order, and
\* within a block the sub-parts in order.
RECURSIVE FirstKeyValue(_, _)
FirstKeyValue(subblocks, key) ==
    IF subblocks = <<>> THEN None
    ELSE IF Head(subblocks).kind = "KeyValue" /\ Head(subblocks).key = key
         THEN Some(Head(subblocks).value)
    ELSE FirstKeyValue(Tail(subblocks), key)

get_key_value(parts, key) == FirstKeyValue(Flatten(parts), key)

\* HeaderValueParts::to_string: ", " between the sub-parts of a block and
\* "; " between the blocks.
\* Mutant: a pair is written with ':' between its key and its value.
SubblockText_Colon(params_subblock) ==
    IF params_subblock.kind = "Single" THEN params_subblock.text
    ELSE params_subblock.key \o <<COLON>> \o params_subblock.value

SubblockText(params_subblock) ==
    IF params_subblock.kind = "Single" THEN params_subblock.text
    ELSE params_subblock.key \o <<EQUALS>> \o params_subblock.value

RECURSIVE BlockText(_)
BlockText(params_block) ==
    IF params_block = <<>> THEN <<>>
    ELSE IF Len(params_block) = 1 THEN SubblockText(params_block[1])
    ELSE SubblockText(params_block[1]) \o <<COMMA, SPACE>>
         \o BlockText(Tail(params_block))

RECURSIVE to_string(_)
to_string(parts) ==
    IF parts = <<>> THEN <<>>
    ELSE IF Len(parts) = 1 THEN BlockText(parts[1])
    ELSE BlockText(parts[1]) \o <<SEMICOLON, SPACE>> \o to_string(Tail(parts))

\* Mutant: GET is given the body-presence of HEAD.
method_has_request_body_GetNo(method) ==
    CASE method \in {"Delete", "Head", "Get"} -> "No"
      [] method \in {"Options", "Invalid"} -> "Optional"
      [] OTHER -> "Yes"

method_has_request_body(method) ==
    CASE method = "Connect" -> "Yes"
      [] method = "Delete" -> "No"
      [] method = "Get" -> "Optional"
      [] method = "Head" -> "No"
      [] method = "Options" -> "Optional"
      [] method = "Patch" -> "Yes"
      [] method = "Post" -> "Yes"
      [] method = "Put" -> "Yes"
      [] method = "Trace" -> "Yes"
      [] method = "Invalid" -> "Optional"

\* The loop body of get_query_args_from_string over the '&' items.
\* One item of the query string, split at its '=' characters, inserted.
InsertQueryArg(args, query_arg) ==
    IF Len(query_arg) = 2
    THEN Insert(args, query_arg[1], query_arg[2])
    ELSE Insert(args, query_arg[1], ONE)

\* The loop body of get_query_args_from_string over the '&' items.
RECURSIVE InsertQueryArgs(_, _)
InsertQueryArgs(args, items) ==
    IF items = <<>> THEN args
    ELSE InsertQueryArgs(InsertQueryArg(args, Split(Head(items), EQUALS)),
                         Tail(items))

\* The result of get_query_args_from_string for the collected args.
QueryArgsResult(args) ==
    IF Cardinality(DOMAIN args) > 0 THEN Some(args) ELSE None

get_query_args_from_string(subject) ==
    QueryArgsResult(IF subject # <<>>
                    THEN InsertQueryArgs(EmptyMap, Split(subject, AMPERSAND))
                    ELSE EmptyMap)

SinglePart(map) == [kind |-> "SinglePart", map |-> map]
MultiPart(map) == [kind |-> "MultiPart", map |-> map]

\* The body built from the result of get_query_args_from_string.
MessageBodyOf(args) ==
    IF args.some THEN Some(SinglePart(args.val)) ELSE None

get_message_body(body) == MessageBodyOf(get_query_args_from_string(body))

\* Mutant: the value of a pair keeps the white space around it.
HeaderSubblockOf_NoValueTrim(params_subblock, params_key_pair) ==
    IF Len(params_key_pair) = 2
    THEN KeyValue(Trim(params_key_pair[1]), params_key_pair[2])
    ELSE Single(Trim(params_subblock))

\* One sub-part of a header value, given its pieces around the first '='.
HeaderSubblockOf(params_subblock, params_key_pair) ==
    IF Len(params_key_pair) = 2
    THEN KeyValue(Trim(params_key_pair[1]), Trim(params_key_pair[2]))
    ELSE Single(Trim(params_subblock))

HeaderSubblock(params_subblock) ==
    HeaderSubblockOf(params_subblock, SplitN2(params_subblock, EQUALS))

\* The sub-parts of one block, given its pieces around the ',' characters.
HeaderSubblocks(params_subblocks) ==
    [i \in 1..Len(params_subblocks) |-> HeaderSubblock(params_subblocks[i])]

HeaderBlock(params_block) == HeaderSubblocks(Split(params_block, COMMA))

\* The blocks of a header value, given its pieces around the ';' characters.
HeaderBlocksOf(params_blocks) ==
    [i \in 1..Len(params_blocks) |-> HeaderBlock(params_blocks[i])]

\* The HeaderValueParts.parts built from a trimmed header value.
HeaderParts(header_value) == HeaderBlocksOf(Split(header_value, SEMICOLON))

\* Mutant: the key is canonicalized with the white space around it.
HeaderFieldOf_NoKeyTrim(line, parts) ==
    IF line # <<>> /\ Len(parts) = 2
    THEN Some([key |-> capitalize_key(parts[1]),
               value |-> HeaderParts(Trim(parts[2]))])
    ELSE None

\* The header field of a trimmed line, given its pieces around the first ':'.
HeaderFieldOf(line, parts) ==
    IF line # <<>> /\ Len(parts) = 2
    THEN Some([key |-> capitalize_key(Trim(parts[1])),
               value |-> HeaderParts(Trim(parts[2]))])
    ELSE None

\* get_header_field on a line already trimmed.
TrimmedHeaderField(line) == HeaderFieldOf(line, SplitN2(line, COLON))

get_header_field(untrimmed) == TrimmedHeaderField(Trim(untrimmed))

MethodOf(token) ==
    CASE token = CONNECT -> "Connect"
      [] token = DELETE -> "Delete"
      [] token = GET -> "Get"
      [] token = HEAD -> "Head"
      [] token = OPTIONS -> "Options"
      [] token = PATCH -> "Patch"
      [] token = PUT -> "Put"
      [] token = POST -> "Post"
      [] token = TRACE -> "Trace"
      [] OTHER -> "Invalid"

ProtocolOf(token) ==
    CASE token = HTTP_0_9 -> "V0_9"
      [] token = HTTP_1_0 -> "V1_0"
      [] token = HTTP_1_1 -> "V1_1"
      [] token = HTTP_2_0 -> "V2_0"
      [] OTHER -> "Invalid"

\* The request URI split into base, query string and query arguments, as
\* both branches of get_request_line do it.
\* The query arguments kept from the result of get_query_args_from_string.
QueryArguments(query_args) ==
    IF query_args.some THEN query_args.val ELSE EmptyMap

\* The URI fields, given the pieces of the URI around a '?'.
UriFieldsOf(request_uri, uri_parts) ==
    IF Len(uri_parts) = 2
    THEN [request_uri_base |-> uri_parts[1],
          query_string |-> uri_parts[2],
          query_arguments |->
              QueryArguments(get_query_args_from_string(uri_parts[2]))]
    ELSE [request_uri_base |-> request_uri,
          query_string |-> <<>>,
          query_arguments |-> EmptyMap]

\* Mutant: the URI is split at every '?', not at the first one only.
UriFields_SplitAll(request_uri) ==
    UriFieldsOf(request_uri, Split(request_uri, QUESTION))

UriFields(request_uri) ==
    UriFieldsOf(request_uri, SplitN2(request_uri, QUESTION))

\* The request line with the given URI fields.
LineOf(method, protocol, raw, request_uri, uri) ==
    [method |-> method,
     protocol |-> protocol,
     raw |-> raw,
     request_uri |-> request_uri,
     request_uri_base |-> uri.request_uri_base,
     query_arguments |-> uri.query_arguments,
     query_string |-> uri.query_string]

MakeLine(method, protocol, raw, request_uri) ==
    LineOf(method, protocol, raw, request_uri, UriFields(request_uri))

\* The branch of get_request_line for a line of three parts.
ThreePartLineOf(line, parts, method, protocol) ==
    IF method # "Invalid" /\ protocol # "Invalid"
    THEN Some(MakeLine(method, protocol, line, parts[2]))
    ELSE None

ThreePartLine(line, parts) ==
    ThreePartLineOf(line, parts, MethodOf(parts[1]), ProtocolOf(parts[3]))

\* Mutant: an empty request URI is accepted.
OnePartLine_NoEmptyCheck(line, parts) ==
    Some(MakeLine("Get", "V0_9", line, TrimMatches(parts[1], NUL)))

\* Mutant: the null bytes around the request URI are kept.
OnePartLine_NoNullTrim(line, parts) ==
    IF parts[1] # <<>>
    THEN Some(MakeLine("Get", "V0_9", line, parts[1]))
    ELSE None

\* The branch of get_request_line for a line of one part.
OnePartLine(line, parts) ==
    IF TrimMatches(parts[1], NUL) # <<>>
    THEN Some(MakeLine("Get", "V0_9", line, TrimMatches(parts[1], NUL)))
    ELSE None

\* Mutant: every number of parts other than three is taken as one part.
RequestLineOf_AnyAsOne(line, parts) ==
    IF Len(parts) = 3 THEN ThreePartLine(line, parts)
    ELSE OnePartLine(line, parts)

\* The request line of a trimmed line, given its pieces around the spaces.
RequestLineOf(line, parts) ==
    IF Len(parts) = 3 THEN ThreePartLine(line, parts)
    ELSE IF Len(parts) = 1 THEN OnePartLine(line, parts)
    ELSE None

\* get_request_line on a line already trimmed.
TrimmedRequestLine(line) == RequestLineOf(line, Split(line, SPACE))

get_request_line(untrimmed) == TrimmedRequestLine(Trim(untrimmed))

\* ------------------------------------------------------------------------
\* request.rs: the part extractor and the section handler
\* ------------------------------------------------------------------------

\* The positions (Rust indices) at or after `from` where the byte loop of
\* get_query_args_from_multipart_blob sees a line feed with
\* last_was_carriage_return set, that is a line feed right after a
\* carriage return of the data.
LineFeeds(data, from) ==
    {i \in from..(Len(data) - 1) : i >= 1 /\ data[i + 1] = LF /\ data[i] = CR}

Min(S) == CHOOSE x \in S : \A y \in S : x <= y

\* The byte loop of get_query_args_from_multipart_blob from position `from`
\* on, taken line by line: the bytes between two such line feeds only set
\* and clear last_was_carriage_return.  The result is the value of `start`
\* and `headers` when the loop ends (at the end of the data or at the break
\* on a blank line).
RECURSIVE BlobLoop(_, _, _, _)
RECURSIVE BlobLine(_, _, _, _, _)
RECURSIVE BlobLineFeeds(_, _, _, _, _)

\* `headers` with the header field found on a line, if any.
InsertField(headers, field) ==
    IF field.some THEN Insert(headers, field.val.key, field.val.value)
    ELSE headers

\* The line feed at `index` ends the line utf8_line.
BlobLine(data, index, start_, headers, utf8_line) ==
    IF IsUtf8(utf8_line)
    THEN IF Trim(utf8_line) = <<>>
         THEN [start |-> index + 1, headers |-> headers]
         ELSE BlobLoop(data, index + 1, index + 1,
                       InsertField(headers, get_header_field(utf8_line)))
    ELSE BlobLoop(data, index + 1, start_, headers)

\* The loop from `from` on, given the line feeds it will see.
BlobLineFeeds(data, from, start_, headers, line_feeds) ==
    IF line_feeds = {} THEN [start |-> start_, headers |-> headers]
    ELSE BlobLine(data, Min(line_feeds), start_, headers,
                  Slice(data, start_, Min(line_feeds)))

BlobLoop(data, from, start_, headers) ==
    BlobLineFeeds(data, from, start_, headers, LineFeeds(data, from))

MultiPartValue(body, headers) == [body |-> body, headers |-> headers]

\* The `name` parameter of the Content-Disposition header, if any.
ContentDispositionName(headers) ==
    IF CONTENT_DISPOSITION \in DOMAIN headers
    THEN get_key_value(headers[CONTENT_DISPOSITION], NAME)
    ELSE None

\* The name of the part, without its quotes; empty when there is none.
PartName(content_disposition_name) ==
    IF content_disposition_name.some
    THEN TrimMatches(content_disposition_name.val, QUOTE)
    ELSE <<>>

\* The part with the given name, body and headers.
PartOf(name, body, headers) ==
    IF name # <<>> /\ body # <<>>
    THEN Some([key |-> name, value |-> MultiPartValue(body, headers)])
    ELSE None

\* The part, given what the byte loop left in `start` and `headers`.
PartAfterLoop(data, scanned) ==
    PartOf(PartName(ContentDispositionName(scanned.headers)),
           SliceFrom(data, scanned.start), scanned.headers)

get_query_args_from_multipart_blob(data) ==
    PartAfterLoop(data, BlobLoop(data, 0, 0, EmptyMap))

Lines == [tag |-> "Lines"]
Boundaries(boundary) == [tag |-> "Boundaries", boundary |-> boundary]

\* The boundary parameter of the Content-Type header, if any.
ContentTypeBoundary(headers) ==
    IF CONTENT_TYPE \in DOMAIN headers
    THEN get_key_value(headers[CONTENT_TYPE], BOUNDARY)
    ELSE None

\* Mutant: the request line is stored and the section is left at Line.
ParseRequestLine_Stay(unchanged, request_line_temp) ==
    IF request_line_temp.some
    THEN [unchanged EXCEPT !.message.request_line = request_line_temp.val]
    ELSE unchanged

\* parse_line: the new values of the three things it may change.
\* ParserSection::Line
ParseRequestLine(unchanged, request_line_temp) ==
    IF request_line_temp.some
    THEN [unchanged EXCEPT !.message.request_line = request_line_temp.val,
                           !.section = "HeaderFields"]
    ELSE unchanged

\* Mutant: the mode is switched and the body is left as it was.
ParseBlankLine_KeepBody(unchanged, boundary) ==
    [section |->
        IF method_has_request_body(unchanged.message.request_line.method) # "No"
        THEN "MessageBody" ELSE unchanged.section,
     message |-> unchanged.message,
     parser_mode |->
        IF boundary.some THEN Boundaries(boundary.val)
        ELSE unchanged.parser_mode]

\* ParserSection::HeaderFields on a blank line.
ParseBlankLine(unchanged, boundary) ==
    [section |->
        IF method_has_request_body(unchanged.message.request_line.method) # "No"
        THEN "MessageBody" ELSE unchanged.section,
     message |->
        IF boundary.some
        THEN [unchanged.message EXCEPT !.body = MultiPart(EmptyMap)]
        ELSE unchanged.message,
     parser_mode |->
        IF boundary.some THEN Boundaries(boundary.val)
        ELSE unchanged.parser_mode]

\* ParserSection::HeaderFields
ParseHeaderField(unchanged, line) ==
    IF Trim(line) = <<>>
    THEN ParseBlankLine(unchanged, ContentTypeBoundary(unchanged.message.headers))
    ELSE [unchanged EXCEPT !.message.headers =
            InsertField(@, get_header_field(line))]

\* ParserSection::MessageBody
ParseMessageBody(unchanged, line, body_args) ==
    IF line # <<>> /\ body_args.some
    THEN [unchanged EXCEPT !.message.body = body_args.val]
    ELSE unchanged

\* parse_line: the new values of the three things it may change.
parse_line(line, section_, message_, parser_mode_) ==
    CASE section_ = "Line" ->
            ParseRequestLine([section |-> section_, message |-> message_,
                              parser_mode |-> parser_mode_],
                             get_request_line(line))
      [] section_ = "HeaderFields" ->
            ParseHeaderField([section |-> section_, message |-> message_,
                              parser_mode |-> parser_mode_], line)
      [] section_ = "MessageBody" ->
            ParseMessageBody([section |-> section_, message |-> message_,
                              parser_mode |-> parser_mode_],
                             line, get_message_body(line))

\* ------------------------------------------------------------------------
\* request.rs: Message::from_tcp_stream as a state machine, one step per
\* iteration of its byte loop
\* ------------------------------------------------------------------------

VARIABLES
    test,                       \* the parameters the request was built from
    request,                    \* the input buffer
    message,                    \* the temporary message
    start,
    start_boundary,
    start_data,
    section,
    end,                        \* the position of the byte the loop is at
    end_data,
    last_was_carriage_return,
    parser_mode,
    multipart_section,
    pc,                         \* "loop", "return", "done" or "abort"
    result,                     \* the value returned by from_tcp_stream
    first                       \* the result of an earlier call on `test`

vars ==
    <<test, request, message, start, start_boundary, start_data, section, end,
      end_data, last_was_carriage_return, parser_mode, multipart_section,
      pc, result, first>>

InvalidLine ==
    [method |-> "Invalid",
     protocol |-> "Invalid",
     raw |-> <<>>,
     request_uri |-> <<>>,
     request_uri_base |-> <<>>,
     query_arguments |-> EmptyMap,
     query_string |-> <<>>]

TemporaryMessage ==
    [body |-> SinglePart(EmptyMap),
     headers |-> EmptyMap,
     request_line |-> InvalidLine]

\* The local variables of from_tcp_stream when it enters its loop on buffer b.
Enter(b) ==
    /\ request = b
    /\ message = TemporaryMessage
    /\ start = 0
    /\ start_boundary = 0
    /\ start_data = 0
    /\ section = "Line"
    /\ end = 0
    /\ end_data = 0
    /\ last_was_carriage_return = FALSE
    /\ parser_mode = Lines
    /\ multipart_section = "Start"
    /\ pc = "loop"
    /\ result = None

last_index == IF Len(request) = 0 THEN 0 ELSE Len(request) - 1

\* The byte of the current iteration.
byte == request[end + 1]

InLoop == pc = "loop" /\ end < Len(request)

\* Mutant: the byte position is not advanced.
Continue_Stay == pc' = "loop" /\ end' = end

\* `end = end + 1` at the bottom of the loop body.
Continue == pc' = "loop" /\ end' = end + 1

\* `break`
Break == pc' = "return" /\ end' = end

\* An arithmetic overflow or an out-of-range slice ends the call abnormally.
Abort == pc' = "abort" /\ end' = end

\* parse_line's three results stored back.
Parsed(parsed) ==
    /\ message' = parsed.message
    /\ section' = parsed.section
    /\ parser_mode' = parsed.parser_mode

\* Message::parse_line(utf8_line, &mut section, &mut message, &mut parser_mode)
ParseLine(utf8_line) ==
    Parsed(parse_line(utf8_line, section, message, parser_mode))

\* Mutant: clean_end leaves out one byte more.
CleanEnd_Before == IF byte = NUL THEN end - 1 ELSE end

\* `clean_end` of the branch for a null byte or the last byte.
CleanEnd == IF byte = NUL THEN end ELSE end + 1

\* Mutant: the branch for lines is taken in every mode.
InLines_AnyMode == InLoop

\* `match parser_mode` selects ParserMode::Lines.
InLines == InLoop /\ parser_mode.tag = "Lines"

\* ParserMode::Lines
LinesMode ==
    /\ InLines
    /\ UNCHANGED <<test, request, start_data, end_data, multipart_section,
                   result, first>>
    /\ IF byte = CR
       THEN /\ last_was_carriage_return' = TRUE
            /\ UNCHANGED <<message, section, parser_mode, start, start_boundary>>
            /\ Continue
       ELSE IF byte = LF /\ last_was_carriage_return
       THEN IF end < 1 \/ start > end - 1
            THEN /\ UNCHANGED <<message, section, parser_mode, start,
                                start_boundary, last_was_carriage_return>>
                 /\ Abort
            ELSE /\ IF IsUtf8(Slice(request, start, end - 1))
                    THEN /\ ParseLine(Slice(request, start, end - 1))
                         /\ start' = end + 1
                         /\ start_boundary' = end + 1
                    ELSE UNCHANGED <<message, section, parser_mode, start,
                                     start_boundary>>
                 /\ last_was_carriage_return' = FALSE
                 /\ Continue
       ELSE IF byte = NUL \/ end = last_index
       THEN /\ IF start > CleanEnd
               THEN /\ UNCHANGED <<message, section, parser_mode>>
                    /\ Abort
               ELSE /\ IF IsUtf8(Slice(request, start, CleanEnd))
                       THEN ParseLine(Slice(request, start, CleanEnd))
                       ELSE UNCHANGED <<message, section, parser_mode>>
                    /\ Break
            /\ UNCHANGED <<start, start_boundary, last_was_carriage_return>>
       ELSE /\ last_was_carriage_return' = FALSE
            /\ UNCHANGED <<message, section, parser_mode, start, start_boundary>>
            /\ Continue

InBoundaries(state) ==
    /\ InLoop
    /\ parser_mode.tag = "Boundaries"
    /\ multipart_section = state
    /\ UNCHANGED <<test, request, start, section, parser_mode, result, first>>

\* MultiPartSection::Skipping
Skipping ==
    /\ InBoundaries("Skipping")
    /\ UNCHANGED <<message, start_data, end_data>>
    /\ IF byte = CR
       THEN /\ last_was_carriage_return' = TRUE
            /\ UNCHANGED <<multipart_section, start_boundary>>
            /\ Continue
       ELSE IF byte = LF /\ last_was_carriage_return
       THEN /\ multipart_section' = "Start"
            /\ start_boundary' = end + 1
            /\ last_was_carriage_return' = FALSE
            /\ Continue
       ELSE IF byte = NUL
       THEN /\ UNCHANGED <<multipart_section, start_boundary,
                           last_was_carriage_return>>
            /\ Break
       ELSE /\ last_was_carriage_return' = FALSE
            /\ UNCHANGED <<multipart_section, start_boundary>>
            /\ Continue

\* Mutant: the token is read at its first byte whatever the index is.
BoundaryGet_First(i) ==
    IF i < Len(parser_mode.boundary) THEN Some(parser_mode.boundary[1])
    ELSE None

\* boundary.get(i)
BoundaryGet(i) ==
    IF i < Len(parser_mode.boundary) THEN Some(parser_mode.boundary[i + 1])
    ELSE None

\* MultiPartSection::Start
Start ==
    /\ InBoundaries("Start")
    /\ UNCHANGED <<message, start_data, end_data, last_was_carriage_return>>
    /\ IF end < start_boundary
       THEN UNCHANGED <<multipart_section, start_boundary>> /\ Abort
       ELSE IF BoundaryGet(end - start_boundary).some
       THEN IF BoundaryGet(end - start_boundary).val = byte
            THEN /\ multipart_section' =
                        IF end - start_boundary + 1 = Len(parser_mode.boundary)
                        THEN "StartSuffix" ELSE multipart_section
                 /\ UNCHANGED start_boundary
                 /\ Continue
            ELSE IF byte = DASH /\ start_boundary < end
            THEN IF /\ BoundaryGet(end - start_boundary - 1).some
                    /\ BoundaryGet(end - start_boundary - 1).val = byte
                 THEN /\ start_boundary' = start_boundary + 1
                      /\ UNCHANGED multipart_section
                      /\ Continue
                 ELSE /\ multipart_section' = "Skipping"
                      /\ UNCHANGED start_boundary
                      /\ Continue
            ELSE /\ multipart_section' = "Skipping"
                 /\ UNCHANGED start_boundary
                 /\ Continue
       ELSE IF byte = NUL
       THEN UNCHANGED <<multipart_section, start_boundary>> /\ Break
       ELSE /\ multipart_section' = "Skipping"
            /\ UNCHANGED start_boundary
            /\ Continue

\* MultiPartSection::StartSuffix
StartSuffix ==
    /\ InBoundaries("StartSuffix")
    /\ UNCHANGED <<message, start_boundary, end_data>>
    /\ IF byte = CR
       THEN /\ last_was_carriage_return' = TRUE
            /\ UNCHANGED <<multipart_section, start_data>>
            /\ Continue
       ELSE IF byte = LF /\ last_was_carriage_return
       THEN /\ multipart_section' = "End"
            /\ last_was_carriage_return' = FALSE
            /\ start_data' = end
            /\ Continue
       ELSE IF byte = NUL
       THEN /\ UNCHANGED <<multipart_section, start_data,
                           last_was_carriage_return>>
            /\ Break
       ELSE /\ last_was_carriage_return' = FALSE
            /\ multipart_section' = "Skipping"
            /\ UNCHANGED start_data
            /\ Continue

\* MultiPartSection::End
End ==
    /\ InBoundaries("End")
    /\ UNCHANGED <<message, start_data>>
    /\ IF byte = CR
       THEN /\ last_was_carriage_return' = TRUE
            /\ UNCHANGED <<multipart_section, end_data, start_boundary>>
            /\ Continue
       ELSE IF byte = LF /\ last_was_carriage_return
       THEN IF end < 1
            THEN /\ UNCHANGED <<multipart_section, end_data, start_boundary,
                                last_was_carriage_return>>
                 /\ Abort
            ELSE /\ multipart_section' = "EndSecondary"
                 /\ last_was_carriage_return' = FALSE
                 /\ end_data' = end - 1
                 /\ start_boundary' = end + 1
                 /\ Continue
       ELSE IF byte = NUL
       THEN /\ UNCHANGED <<multipart_section, end_data, start_boundary,
                           last_was_carriage_return>>
            /\ Break
       ELSE /\ UNCHANGED <<multipart_section, end_data, start_boundary,
                           last_was_carriage_return>>
            /\ Continue

\* Mutant: a byte that does not begin a second CRLF sends the scanner back
\* to End.
EndSecondary_Strict ==
    /\ InBoundaries("EndSecondary")
    /\ UNCHANGED <<message, start_boundary, start_data, end_data>>
    /\ IF byte = CR
       THEN /\ last_was_carriage_return' = TRUE
            /\ UNCHANGED multipart_section
            /\ Continue
       ELSE IF byte = LF /\ last_was_carriage_return
       THEN /\ multipart_section' = "EndBoundary"
            /\ last_was_carriage_return' = FALSE
            /\ Continue
       ELSE IF byte = NUL
       THEN /\ UNCHANGED <<multipart_section, last_was_carriage_return>>
            /\ Break
       ELSE /\ multipart_section' = "End"
            /\ last_was_carriage_return' = FALSE
            /\ Continue

\* MultiPartSection::EndSecondary
EndSecondary ==
    /\ InBoundaries("EndSecondary")
    /\ UNCHANGED <<message, start_boundary, start_data, end_data>>
    /\ IF byte = CR
       THEN /\ last_was_carriage_return' = TRUE
            /\ UNCHANGED multipart_section
            /\ Continue
       ELSE IF byte = LF /\ last_was_carriage_return
       THEN /\ multipart_section' = "EndBoundary"
            /\ last_was_carriage_return' = FALSE
            /\ Continue
       ELSE IF byte = NUL
       THEN /\ UNCHANGED <<multipart_section, last_was_carriage_return>>
            /\ Break
       ELSE /\ multipart_section' = "EndBoundary"
            /\ last_was_carriage_return' = FALSE
            /\ Continue

\* The body after the part between start_data and end_data is closed by a
\* full boundary match (the block under `if start_data > 0 && ...`).
InsertPart(body, extracted) ==
    IF extracted.some /\ body.kind = "MultiPart"
    THEN MultiPart(Insert(body.map, extracted.val.key, extracted.val.value))
    ELSE body

\* Mutant: a part that the extractor drops empties the mapping.
ClosePart_Reset(body) ==
    IF start_data > 0 /\ start_data < end_data /\ end_data < Len(request)
    THEN IF get_query_args_from_multipart_blob(
                Slice(request, start_data, end_data)).some
         THEN InsertPart(body, get_query_args_from_multipart_blob(
                                   Slice(request, start_data, end_data)))
         ELSE MultiPart(EmptyMap)
    ELSE body

ClosePart(body) ==
    IF start_data > 0 /\ start_data < end_data /\ end_data < Len(request)
    THEN InsertPart(body, get_query_args_from_multipart_blob(
                              Slice(request, start_data, end_data)))
    ELSE body

\* MultiPartSection::EndBoundary
EndBoundary ==
    /\ InBoundaries("EndBoundary")
    /\ UNCHANGED <<start_data, end_data>>
    /\ IF end < start_boundary
       THEN /\ UNCHANGED <<message, multipart_section, start_boundary,
                           last_was_carriage_return>>
            /\ Abort
       ELSE IF BoundaryGet(end - start_boundary).some
       THEN IF BoundaryGet(end - start_boundary).val = byte
            THEN /\ IF end - start_boundary + 1 = Len(parser_mode.boundary)
                    THEN /\ multipart_section' = "StartSuffix"
                         /\ message' = [message EXCEPT !.body = ClosePart(@)]
                    ELSE UNCHANGED <<multipart_section, message>>
                 /\ UNCHANGED <<start_boundary, last_was_carriage_return>>
                 /\ Continue
            ELSE IF byte = DASH /\ start_boundary < end
            THEN /\ IF /\ BoundaryGet(end - start_boundary - 1).some
                       /\ BoundaryGet(end - start_boundary - 1).val = byte
                    THEN /\ start_boundary' = start_boundary + 1
                         /\ UNCHANGED multipart_section
                    ELSE /\ multipart_section' = "End"
                         /\ UNCHANGED start_boundary
                 /\ UNCHANGED <<message, last_was_carriage_return>>
                 /\ Continue
            ELSE /\ multipart_section' = "End"
                 /\ last_was_carriage_return' =
                        IF byte = CR THEN TRUE ELSE last_was_carriage_return
                 /\ UNCHANGED <<message, start_boundary>>
                 /\ Continue
       ELSE IF byte = NUL
       THEN /\ UNCHANGED <<message, multipart_section, start_boundary,
                           last_was_carriage_return>>
            /\ Break
       ELSE /\ multipart_section' = "End"
            /\ UNCHANGED <<message, start_boundary, last_was_carriage_return>>
            /\ Continue

\* The iterator is exhausted: the for loop ends.
LoopEnd ==
    /\ pc = "loop"
    /\ end >= Len(request)
    /\ pc' = "return"
    /\ UNCHANGED <<test, request, message, start, start_boundary, start_data,
                   section, end, end_data, last_was_carriage_return,
                   parser_mode, multipart_section, result, first>>

\* Mutant: the temporary message is returned whatever its request line is.
ValidityGate_Always(message_) == Some(message_)

\* "Did we find a valid method and protocol?"
ValidityGate(message_) ==
    IF /\ message_.request_line.method # "Invalid"
       /\ message_.request_line.protocol # "Invalid"
    THEN Some(message_)
    ELSE None

Return ==
    /\ pc = "return"
    /\ result' = ValidityGate(message)
    /\ pc' = "done"
    /\ UNCHANGED <<test, request, message, start, start_boundary, start_data,
                   section, end, end_data, last_was_carriage_return,
                   parser_mode, multipart_section, first>>

from_tcp_stream ==
    \/ LinesMode
    \/ Skipping
    \/ Start
    \/ StartSuffix
    \/ End
    \/ EndSecondary
    \/ EndBoundary
    \/ LoopEnd
    \/ Return

\* ------------------------------------------------------------------------
\* Input buffers
\* ------------------------------------------------------------------------

MaxNulls == 4       \* longest all-null buffer
MaxPad == 2         \* most null bytes appended to a buffer
MaxLines == 2       \* most lines of a buffer of free lines
MaxPayload == 2     \* longest payload of a single part
MaxPayload2 == 1    \* longest payload of each of two parts

SeqsUpTo(S, n) == UNION {[1..k -> S] : k \in 0..n}

Nulls(k) == [i \in 1..k |-> NUL]

\* Lines that are dispatched in any order: valid and invalid request
\* lines, header lines, a blank line, body text and bytes that are not text.
FreeLines ==
    {Bytes("GET / HTTP/1.1"),
     Bytes("HEAD /?a=1 HTTP/1.0"),
     Bytes("FOO / HTTP/1.1"),
     Bytes("GET / HTTP/2.5"),
     Bytes("A:b"),
     Bytes("A: b"),
     <<>>,
     <<255>>}

Endings == {<<>>, <<CR>>, CRLF}

RECURSIVE JoinLines(_)
JoinLines(lines) ==
    IF Len(lines) = 0 THEN <<>>
    ELSE IF Len(lines) = 1 THEN lines[1]
    ELSE lines[1] \o CRLF \o JoinLines(Tail(lines))

\* The request-line method tokens and their variants.
MethodTokens ==
    {<<"CONNECT", "Connect">>, <<"DELETE", "Delete">>, <<"GET", "Get">>,
     <<"HEAD", "Head">>, <<"OPTIONS", "Options">>, <<"PATCH", "Patch">>,
     <<"PUT", "Put">>, <<"POST", "Post">>, <<"TRACE", "Trace">>}

\* Valid request lines with the method each one selects.
RequestLines ==
    {[line |-> Bytes(m[1]) \o Bytes(" / HTTP/1.1"), method |-> m[2]] :
        m \in MethodTokens}
    \cup {[line |-> Bytes("index.html"), method |-> "Get"]}

HeaderBlocks ==
    {<<>>,
     Bytes("Agent: Random browser") \o CRLF,
     Bytes("Content-Type: text/plain; charset=utf-8") \o CRLF,
     Bytes("agent: a") \o CRLF \o Bytes("AGENT: b") \o CRLF,
     SHARP_S \o Bytes(":x") \o CRLF}

\* Body texts with the arguments each one holds.
BodyTexts ==
    {[text |-> <<>>, args |-> EmptyMap],
     [text |-> Bytes("test=abc"), args |-> (Bytes("test") :> Bytes("abc"))],
     [text |-> Bytes("a=1&b"),
      args |-> (Bytes("a") :> Bytes("1") @@ Bytes("b") :> Bytes("1"))],
     [text |-> Bytes("Agent: x"), args |-> (Bytes("Agent: x") :> Bytes("1"))]}

BoundaryTokens == {Bytes("X"), Bytes("-X"), Bytes("--X")}

PayloadBytes == {Code("a"), CR, LF, DASH}

PayloadBytes2 == {Code("a"), CR, LF}

\* Payloads of more than one line, with text of the boundary lines in them.
LinePayloads ==
    {Bytes("a") \o CRLF \o CRLF \o Bytes("X"),
     Bytes("a") \o CRLF \o Bytes("a-X"),
     Bytes("a") \o CRLF \o Bytes("b"),
     <<CR>> \o Bytes("a") \o <<LF>> \o Bytes("b")}

\* A multipart request: the boundary token in the Content-Type header, and
\* in the body, for each part, a boundary line (the token after `dashes`),
\* the Content-Disposition line with the part's name, a blank line, the
\* payload and the separator; then the closing boundary line.
DispositionLine(name) ==
    Bytes("Content-Disposition: form-data; name=\"") \o name \o Bytes("\"")

PartLines ==
    [n \in {Bytes("file"), Bytes("file2"), <<>>} |-> DispositionLine(n)]

ClosingDashes == Bytes("--")

MultipartHeader == Bytes("Content-Type: multipart/form-data; boundary=")

MultipartLine ==
    [m \in {"POST", "HEAD"} |-> Bytes(m) \o Bytes(" / HTTP/1.1")]

RECURSIVE PartsBody(_, _, _)
PartsBody(parts, delimiter, separator) ==
    IF parts = <<>> THEN delimiter \o ClosingDashes \o CRLF
    ELSE delimiter \o CRLF
         \o PartLines[Head(parts).name] \o CRLF \o CRLF
         \o Head(parts).payload \o separator
         \o PartsBody(Tail(parts), delimiter, separator)

BuildMultipart(t) ==
    MultipartLine[t.method[1]] \o CRLF
    \o MultipartHeader \o t.boundary \o CRLF
    \o CRLF
    \o PartsBody(t.parts, t.dashes \o t.boundary, t.separator)

OnePart ==
    {<<[name |-> Bytes("file"), payload |-> p]>> :
        p \in SeqsUpTo(PayloadBytes, MaxPayload)}

TwoParts ==
    {<<[name |-> Bytes("file"), payload |-> p],
       [name |-> Bytes("file2"), payload |-> q]>> :
        p \in SeqsUpTo(PayloadBytes2, MaxPayload2) \ {<<>>},
        q \in SeqsUpTo(PayloadBytes2, MaxPayload2) \ {<<>>}}

\* Two parts of which one is dropped: it has no payload or no name.
DroppedParts ==
    {<<[name |-> Bytes("file"), payload |-> <<>>],
       [name |-> Bytes("file2"), payload |-> Bytes("a")]>>,
     <<[name |-> <<>>, payload |-> Bytes("a")],
       [name |-> Bytes("file2"), payload |-> Bytes("a")]>>,
     <<[name |-> Bytes("file"), payload |-> Bytes("a")],
       [name |-> <<>>, payload |-> Bytes("a")]>>}

NullTests == {[family |-> "nulls", length |-> k] : k \in 0..MaxNulls}

LineTests ==
    {[family |-> "lines", lines |-> l, ending |-> e, pad |-> k] :
        l \in SeqsUpTo(FreeLines, MaxLines), e \in Endings, k \in 0..MaxPad}

RequestTests ==
    {[family |-> "request", line |-> r, headers |-> h, text |-> b,
      ending |-> e, pad |-> k] :
        r \in RequestLines, h \in HeaderBlocks, b \in BodyTexts,
        e \in {<<>>, CRLF}, k \in 0..MaxPad}

MultipartTests ==
    {[family |-> "multipart", method |-> m, boundary |-> b, dashes |-> d,
      parts |-> ps, separator |-> sep, pad |-> 0] :
        m \in {<<"POST", "Post">>, <<"HEAD", "Head">>},
        b \in BoundaryTokens, d \in {<<>>, Bytes("--")},
        ps \in OnePart, sep \in {CRLF, CRLF \o CRLF}}
    \cup
    {[family |-> "multipart", method |-> <<"POST", "Post">>, boundary |-> b,
      dashes |-> d, parts |-> ps, separator |-> sep, pad |-> 0] :
        b \in BoundaryTokens, d \in {<<>>, Bytes("--")},
        ps \in TwoParts, sep \in {CRLF, CRLF \o CRLF}}
    \cup
    {[family |-> "multipart", method |-> <<"POST", "Post">>, boundary |-> b,
      dashes |-> ClosingDashes,
      parts |-> <<[name |-> Bytes("file"), payload |-> Bytes("a")]>>,
      separator |-> CRLF, pad |-> k] :
        b \in BoundaryTokens, k \in 1..MaxPad}
    \cup
    {[family |-> "multipart", method |-> <<"POST", "Post">>, boundary |-> b,
      dashes |-> ClosingDashes,
      parts |-> <<[name |-> Bytes("file"), payload |-> p]>>,
      separator |-> CRLF, pad |-> 0] :
        b \in BoundaryTokens, p \in LinePayloads}
    \cup
    {[family |-> "multipart", method |-> <<"POST", "Post">>, boundary |-> b,
      dashes |-> ClosingDashes, parts |-> ps, separator |-> CRLF,
      pad |-> 0] :
        b \in BoundaryTokens, ps \in DroppedParts}
    \cup
    {[family |-> "multipart", method |-> <<"POST", "Post">>, boundary |-> b,
      dashes |-> CRLF \o ClosingDashes,
      parts |-> <<[name |-> Bytes("file"), payload |-> Bytes("a")]>>,
      separator |-> CRLF, pad |-> 0] :
        b \in BoundaryTokens}

\* A request of two parts that is cut short: the buffer ends after `at`
\* bytes of it, or holds a null byte there and the rest after it.
CutRequest ==
    BuildMultipart([method |-> <<"POST", "Post">>, boundary |-> Bytes("--X"),
                    dashes |-> ClosingDashes, separator |-> CRLF,
                    parts |-> <<[name |-> Bytes("file"), payload |-> Bytes("a")],
                                [name |-> Bytes("file2"),
                                 payload |-> Bytes("a")]>>])

\* The number of bytes of CutRequest before its body.
CutHead ==
    Len(MultipartLine["POST"] \o CRLF \o MultipartHeader \o Bytes("--X")
        \o CRLF \o CRLF)

CutTests ==
    {[family |-> "cut", at |-> k, null |-> n] :
        k \in CutHead..Len(CutRequest), n \in BOOLEAN}

BuildCut(t) ==
    IF t.null
    THEN SubSeq(CutRequest, 1, t.at) \o <<NUL>>
         \o SubSeq(CutRequest, t.at + 1, Len(CutRequest))
    ELSE SubSeq(CutRequest, 1, t.at)

\* The buffer of a test.
Build(t) ==
    CASE t.family = "nulls" -> Nulls(t.length)
      [] t.family = "lines" -> JoinLines(t.lines) \o t.ending \o Nulls(t.pad)
      [] t.family = "request" ->
            t.line.line \o CRLF \o t.headers \o CRLF \o t.text.text \o t.ending
            \o Nulls(t.pad)
      [] t.family = "multipart" -> BuildMultipart(t) \o Nulls(t.pad)
      [] t.family = "cut" -> BuildCut(t)

Tests ==
    NullTests \cup LineTests \cup RequestTests \cup MultipartTests \cup CutTests

Init ==
    /\ test \in Tests
    /\ first = None
    /\ Enter(Build(test))

Next == from_tcp_stream

Spec == Init /\ [][Next]_vars

\* The call runs on: a step that can be taken is taken.  The loop body can
\* take a step exactly when InLoop holds, every branch of it giving every
\* variable its next value, so its weak fairness is stated with InLoop in
\* the place of ENABLED.
SpecLive ==
    /\ Spec
    /\ <>[]InLoop => []<><<from_tcp_stream>>_vars
    /\ WF_vars(LoopEnd)
    /\ WF_vars(Return)

\* ------------------------------------------------------------------------
\* A second call on the same buffer followed by null bytes
\* (tests::test_from_tcp_stream, "POST request with random header and null
\* bytes")
\* ------------------------------------------------------------------------

NoNull(b) == \A i \in 1..Len(b) : b[i] # NUL

PadTests == {t \in Tests : NoNull(Build(t))}

InitPad ==
    /\ test \in PadTests
    /\ first = None
    /\ Enter(Build(test))

\* The first call has returned: from_tcp_stream is called on the same
\* bytes with k null bytes pushed at the end, and the first result is kept.
CallPadded ==
    /\ pc = "done"
    /\ ~first.some
    /\ \E k \in 1..MaxPad : request' = request \o Nulls(k)
    /\ first' = Some(result)
    /\ message' = TemporaryMessage
    /\ start' = 0
    /\ start_boundary' = 0
    /\ start_data' = 0
    /\ section' = "Line"
    /\ end' = 0
    /\ end_data' = 0
    /\ last_was_carriage_return' = FALSE
    /\ parser_mode' = Lines
    /\ multipart_section' = "Start"
    /\ pc' = "loop"
    /\ result' = None
    /\ UNCHANGED test

NextPad == from_tcp_stream \/ CallPadded

SpecPad == InitPad /\ [][NextPad]_vars

\* ------------------------------------------------------------------------
\* Calls of Message::get_request_line (tests::test_get_request_line)
\* ------------------------------------------------------------------------

MaxToken == 3       \* longest single-token request line
MaxWords == 4       \* most words of a line of free words

ProtocolTokens ==
    {<<"HTTP/0.9", "V0_9">>, <<"HTTP/1.0", "V1_0">>, <<"HTTP/1.1", "V1_1">>,
     <<"HTTP/2.0", "V2_0">>}

Uris ==
    {Bytes("/"), <<>>, Bytes("/random?abc=test"), Bytes("/?"), Bytes("/a?b?c"),
     Bytes("?"), Bytes("/moradish.html?test&abc=def")}

TokenBytes == {NUL, Code("a"), QUESTION, EQUALS}

ThreeTokenTests ==
    {[family |-> "three", method |-> m, uri |-> u, protocol |-> p, wrap |-> w] :
        m \in MethodTokens \cup {<<"RANDOM", "Invalid">>, <<"get", "Invalid">>},
        u \in Uris,
        p \in ProtocolTokens \cup {<<"HTTP/2.2", "Invalid">>},
        w \in {<<>>, CRLF}}

SingleTokenTests ==
    {[family |-> "single", token |-> t, wrap |-> w] :
        t \in SeqsUpTo(TokenBytes, MaxToken), w \in {<<>>, CRLF}}

\* Words that are joined by single spaces in any number and order: method
\* and protocol tokens in their exact and in other letter case, a URI and
\* the empty word, which puts two spaces side by side.
Words ==
    {Bytes("GET"), Bytes("get"), Bytes("HTTP/1.1"), Bytes("http/1.1"),
     Bytes("/"), <<>>}

WordTests ==
    {[family |-> "words", words |-> ws, wrap |-> w] :
        ws \in SeqsUpTo(Words, MaxWords), w \in {<<>>, CRLF}}

RECURSIVE JoinWords(_)
JoinWords(words) ==
    IF Len(words) = 0 THEN <<>>
    ELSE IF Len(words) = 1 THEN words[1]
    ELSE words[1] \o <<SPACE>> \o JoinWords(Tail(words))

BuildLine(t) ==
    CASE t.family = "three" ->
            Bytes(t.method[1]) \o <<SPACE>> \o t.uri \o <<SPACE>>
            \o Bytes(t.protocol[1]) \o t.wrap
      [] t.family = "single" -> t.token \o t.wrap
      [] t.family = "words" -> JoinWords(t.words) \o t.wrap

InitRequestLine ==
    /\ test \in ThreeTokenTests \cup SingleTokenTests \cup WordTests
    /\ first = None
    /\ request = BuildLine(test)
    /\ message = TemporaryMessage
    /\ start = 0
    /\ start_boundary = 0
    /\ start_data = 0
    /\ section = "Line"
    /\ end = 0
    /\ end_data = 0
    /\ last_was_carriage_return = FALSE
    /\ parser_mode = Lines
    /\ multipart_section = "Start"
    /\ pc = "call"
    /\ result = None

\* Message::get_request_line(request)
CallGetRequestLine ==
    /\ pc = "call"
    /\ result' = get_request_line(request)
    /\ pc' = "done"
    /\ UNCHANGED <<test, request, message, start, start_boundary, start_data,
                   section, end, end_data, last_was_carriage_return,
                   parser_mode, multipart_section, first>>

NextRequestLine == CallGetRequestLine

SpecRequestLine == InitRequestLine /\ [][NextRequestLine]_vars

\* ------------------------------------------------------------------------
\* response.rs: the response message and its encoders
\* ------------------------------------------------------------------------

\* response::Message::new
NewMessage(protocol, status, headers, body) ==
    [protocol |-> protocol, status |-> status, headers |-> headers,
     body |-> body]

\* Ord for String: byte by byte, and a proper prefix comes first.
RECURSIVE KeyLess(_, _)
KeyLess(a, b) ==
    IF a = <<>> THEN b # <<>>
    ELSE IF b = <<>> THEN FALSE
    ELSE IF a[1] # b[1] THEN a[1] < b[1]
    ELSE KeyLess(Tail(a), Tail(b))

\* Mutant: the keys are compared from the greatest one down.
LeastKey_Greatest(keys) ==
    CHOOSE k \in keys : \A j \in keys \ {k} : KeyLess(j, k)

\* The first key in the order of headers.sort_by(|a, b| a.cmp(b)): the
\* pairs are compared by key first, and no two pairs have the same key.
LeastKey(keys) ==
    CHOOSE k \in keys : \A j \in keys \ {k} : KeyLess(k, j)

RECURSIVE SortedKeys(_)
\* The sorted keys, given the first one.
SortedFrom(keys, least) == <<least>> \o SortedKeys(keys \ {least})

SortedKeys(keys) ==
    IF keys = {} THEN <<>> ELSE SortedFrom(keys, LeastKey(keys))

\* format!("{} {}\r\n", protocol, status)
StatusLine(self) == self.protocol \o <<SPACE>> \o self.status \o CRLF

\* format!("{}: {}\r\n", key, value) for each key of `order`.
HeaderLines(headers, order) ==
    Flatten([i \in 1..Len(order) |->
                order[i] \o <<COLON, SPACE>> \o headers[order[i]] \o CRLF])

\* The status line, the sorted headers and the blank line.
ResponseHead(self) ==
    StatusLine(self) \o HeaderLines(self.headers, SortedKeys(DOMAIN self.headers))
    \o CRLF

header_to_string(self) == ResponseHead(self)

\* Message::to_string: the body is pushed when it is valid UTF-8.
response_to_string(self) ==
    ResponseHead(self)
    \o (IF self.body # <<>> /\ IsUtf8(self.body) THEN self.body ELSE <<>>)

\* Message::to_bytes: the returned bytes.
to_bytes(self) == ResponseHead(self) \o self.body

\* Message::to_bytes: the message after the call.  Vec::append moves the
\* bytes of self.body into the response and leaves self.body empty.
AfterToBytes(self) == [self EXCEPT !.body = <<>>]

\* ------------------------------------------------------------------------
\* Calls of response::Message::to_bytes, to_string and header_to_string on
\* one message (tests::test_to_bytes, tests::test_to_string)
\* ------------------------------------------------------------------------

MaxCalls == 2       \* most encoder calls on one message

ResponseProtocols == {Bytes("HTTP/1.0"), <<>>}

ResponseStatuses == {Bytes("200 OK"), Bytes("404 Not Found")}

ResponseKeys == {Bytes("A"), Bytes("Ab"), Bytes("B"), Bytes("a")}

ResponseValues == {Bytes("x"), <<>>}

ResponseBodies == {<<>>, Bytes("a"), <<255>>}

ResponseTests ==
    {[family |-> "response", protocol |-> p, status |-> st, headers |-> h,
      body |-> b] :
        p \in ResponseProtocols, st \in ResponseStatuses,
        h \in UNION {[S -> ResponseValues] : S \in SUBSET ResponseKeys},
        b \in ResponseBodies}

\* The message is built; `first` is the list of the calls made on it, each
\* with the message it was made on and the output it returned.
InitResponse ==
    /\ test \in ResponseTests
    /\ first = <<>>
    /\ request = <<>>
    /\ message = NewMessage(test.protocol, test.status, test.headers, test.body)
    /\ start = 0
    /\ start_boundary = 0
    /\ start_data = 0
    /\ section = "Line"
    /\ end = 0
    /\ end_data = 0
    /\ last_was_carriage_return = FALSE
    /\ parser_mode = Lines
    /\ multipart_section = "Start"
    /\ pc = "built"
    /\ result = None

\* A call of encoder `op` that returns `out` and leaves the message `after`.
Encode(op, out, after) ==
    /\ pc \in {"built", "done"}
    /\ Len(first) < MaxCalls
    /\ result' = Some(out)
    /\ first' = Append(first, [op |-> op, self |-> message, out |-> out])
    /\ message' = after
    /\ pc' = "done"
    /\ UNCHANGED <<test, request, start, start_boundary, start_data, section,
                   end, end_data, last_was_carriage_return, parser_mode,
                   multipart_section>>

CallToBytes == Encode("to_bytes", to_bytes(message), AfterToBytes(message))

CallResponseToString ==
    Encode("to_string", response_to_string(message), message)

CallHeaderToString ==
    Encode("header_to_string", header_to_string(message), message)

NextResponse == CallToBytes \/ CallResponseToString \/ CallHeaderToString

SpecResponse == InitResponse /\ [][NextResponse]_vars

\* ------------------------------------------------------------------------
\* Calls of Message::get_header_field, HeaderValueParts::get_key_value and
\* HeaderValueParts::to_string (tests::test_get_header_field)
\* ------------------------------------------------------------------------

MaxLine == 4        \* longest free header line
MaxValue == 4       \* longest header value
MaxParts == 3       \* most sub-parts of a header value built from sub-parts

\* The local variables of from_tcp_stream, which these calls do not use.
scanner ==
    <<message, start, start_boundary, start_data, section, end, end_data,
      last_was_carriage_return, parser_mode, multipart_section>>

NotScanning ==
    /\ message = TemporaryMessage
    /\ start = 0
    /\ start_boundary = 0
    /\ start_data = 0
    /\ section = "Line"
    /\ end = 0
    /\ end_data = 0
    /\ last_was_carriage_return = FALSE
    /\ parser_mode = Lines
    /\ multipart_section = "Start"

LineBytes == {COLON, SPACE, Code("a"), Code("B"), DASH}

ValueBytes == {SEMICOLON, COMMA, EQUALS, SPACE, Code("a"), Code("b")}

LookupKeys == {Bytes("a"), Bytes("b"), <<>>}

HeaderLineTests ==
    {[family |-> "line", raw |-> l] : l \in SeqsUpTo(LineBytes, MaxLine)}

HeaderValueTests ==
    {[family |-> "value", value |-> v] : v \in SeqsUpTo(ValueBytes, MaxValue)}

\* Texts of sub-parts, and the separators put after them.
SubPartTexts ==
    {Bytes("a=b"), Bytes("a=a"), Bytes("b=a"), Bytes("a"), Bytes(" a = b=a ")}

Separators == {<<SEMICOLON>>, <<COMMA>>}

RECURSIVE JoinItems(_)
JoinItems(items) ==
    IF items = <<>> THEN <<>>
    ELSE Head(items)[1] \o Head(items)[2] \o JoinItems(Tail(items))

\* Header values of up to MaxParts sub-parts, each followed by a separator.
HeaderPartsTests ==
    {[family |-> "value", value |-> JoinItems(items)] :
        items \in SeqsUpTo(SubPartTexts \X Separators, MaxParts)}

BuildHeaderLine(t) ==
    CASE t.family = "line" -> t.raw
      [] t.family = "value" -> Bytes("K:") \o t.value

InitHeaderField ==
    /\ test \in HeaderLineTests \cup HeaderValueTests \cup HeaderPartsTests
    /\ first = None
    /\ request = BuildHeaderLine(test)
    /\ NotScanning
    /\ pc = "call"
    /\ result = None

\* Message::get_header_field(request)
CallGetHeaderField ==
    /\ pc = "call"
    /\ result' = get_header_field(request)
    /\ pc' = "parsed"
    /\ UNCHANGED <<test, request, first, scanner>>

\* value.get_key_value(key) on the value of the returned field.
CallGetKeyValue ==
    /\ pc = "parsed"
    /\ result.some
    /\ \E key \in LookupKeys :
          first' = Some([key |-> key,
                         out |-> get_key_value(result.val.value, key)])
    /\ pc' = "done"
    /\ UNCHANGED <<test, request, result, scanner>>

\* value.to_string() on the value of the returned field; the text is put
\* after the field's key and ':' to be parsed again, and the field is kept.
CallToString ==
    /\ pc = "parsed"
    /\ result.some
    /\ ~first.some
    /\ request' = result.val.key \o <<COLON>> \o to_string(result.val.value)
    /\ first' = Some(result.val)
    /\ pc' = "call"
    /\ UNCHANGED <<test, result, scanner>>

NextHeaderField == CallGetHeaderField \/ CallGetKeyValue \/ CallToString

SpecHeaderField == InitHeaderField /\ [][NextHeaderField]_vars

\* ------------------------------------------------------------------------
\* Calls of capitalize_key (tests::test_capitalize_key)
\* ------------------------------------------------------------------------

MaxKey == 3         \* most characters of a key

KeyChars == {<<Code("a")>>, <<Code("A")>>, <<DASH>>, SHARP_S}

\* The other letter case of a character of KeyChars, if it has one.
OtherCase(ch) ==
    IF ch = <<Code("a")>> THEN <<Code("A")>>
    ELSE IF ch = <<Code("A")>> THEN <<Code("a")>>
    ELSE ch

\* A key and a key that differs from it in the case of some letters only.
KeyTests ==
    {[family |-> "key", key |-> Flatten(cs),
      variant |-> Flatten([i \in 1..Len(cs) |->
                              IF i \in flip THEN OtherCase(cs[i]) ELSE cs[i]])] :
        <<cs, flip>> \in
            UNION {{<<c, f>> : f \in SUBSET (1..Len(c))} :
                     c \in SeqsUpTo(KeyChars, MaxKey)}}

InitCapitalize ==
    /\ test \in KeyTests
    /\ first = None
    /\ request = test.key
    /\ NotScanning
    /\ pc = "call"
    /\ result = None

\* capitalize_key(key)
CallCapitalizeKey ==
    /\ pc = "call"
    /\ result' = Some(capitalize_key(request))
    /\ pc' = "once"
    /\ UNCHANGED <<test, request, first, scanner>>

\* capitalize_key on the key returned by the first call, which is kept.
CallCapitalizeAgain ==
    /\ pc = "once"
    /\ first' = result
    /\ request' = result.val
    /\ result' = Some(capitalize_key(result.val))
    /\ pc' = "twice"
    /\ UNCHANGED <<test, scanner>>

\* capitalize_key on the variant of the key; the first result is kept.
CallCapitalizeVariant ==
    /\ pc = "once"
    /\ first' = result
    /\ request' = test.variant
    /\ result' = Some(capitalize_key(test.variant))
    /\ pc' = "variant"
    /\ UNCHANGED <<test, scanner>>

NextCapitalize ==
    CallCapitalizeKey \/ CallCapitalizeAgain \/ CallCapitalizeVariant

SpecCapitalize == InitCapitalize /\ [][NextCapitalize]_vars

\* ------------------------------------------------------------------------
\* Calls of Message::get_query_args_from_string
\* (tests::test_get_message_body_single_part)
\* ------------------------------------------------------------------------

MaxQuery == 4       \* longest query string

QueryBytes == {Code("a"), Code("b"), EQUALS, AMPERSAND}

QueryTests ==
    {[family |-> "query", subject |-> q] : q \in SeqsUpTo(QueryBytes, MaxQuery)}

InitQuery ==
    /\ test \in QueryTests
    /\ first = None
    /\ request = test.subject
    /\ NotScanning
    /\ pc = "call"
    /\ result = None

\* Message::get_query_args_from_string(request)
CallGetQueryArgs ==
    /\ pc = "call"
    /\ result' = get_query_args_from_string(request)
    /\ pc' = "done"
    /\ UNCHANGED <<test, request, first, scanner>>

NextQuery == CallGetQueryArgs

SpecQuery == InitQuery /\ [][NextQuery]_vars

\* ------------------------------------------------------------------------
\* Calls of Message::get_query_args_from_multipart_blob
\* (tests::test_get_query_args_from_multipart_blob)
\* ------------------------------------------------------------------------

MaxBlobLines == 2   \* most header lines of a part

\* Header lines of a part: `cd` tells a Content-Disposition line, and `name`
\* is the text of its name parameter, as written.
BlobHeaderLines ==
    {[text |-> DispositionLine(Bytes("file")), cd |-> TRUE,
      name |-> Bytes("\"file\"")],
     [text |-> Bytes("content-disposition: form-data; name=file2"),
      cd |-> TRUE, name |-> Bytes("file2")],
     [text |-> Bytes("Content-Disposition: name=\"\"c\""), cd |-> TRUE,
      name |-> Bytes("\"\"c\"")],
     [text |-> DispositionLine(<<>>), cd |-> TRUE, name |-> Bytes("\"\"")],
     [text |-> Bytes("Content-Disposition: form-data"), cd |-> TRUE,
      name |-> <<>>],
     [text |-> Bytes("Content-Type: text/plain"), cd |-> FALSE, name |-> <<>>],
     [text |-> <<255>>, cd |-> FALSE, name |-> <<>>]}

\* Payloads: none, text, text with a bare line feed, with a carriage
\* return, with a CRLF, with an empty line, and a CRLF alone.
BlobPayloads ==
    {<<>>, Bytes("a"), Bytes("a") \o <<LF>> \o Bytes("b"),
     <<CR>> \o Bytes("a"), Bytes("a") \o CRLF \o Bytes("b"),
     Bytes("a") \o CRLF \o CRLF \o Bytes("b"), CRLF, <<LF>> \o Bytes("a")}

\* A part as the scanner cuts it (after the line feed of the boundary line)
\* or as the test writes it: header lines, a blank line or none, a payload.
BlobTests ==
    {[family |-> "blob", lead |-> ld, lines |-> ls, blank |-> bl,
      payload |-> p] :
        ld \in {<<>>, <<LF>>}, ls \in SeqsUpTo(BlobHeaderLines, MaxBlobLines),
        bl \in BOOLEAN, p \in BlobPayloads}

RECURSIVE JoinBlobLines(_)
JoinBlobLines(ls) ==
    IF ls = <<>> THEN <<>>
    ELSE Head(ls).text \o CRLF \o JoinBlobLines(Tail(ls))

BuildBlob(t) ==
    t.lead \o JoinBlobLines(t.lines) \o (IF t.blank THEN CRLF ELSE <<>>)
        \o t.payload

InitBlob ==
    /\ test \in BlobTests
    /\ first = None
    /\ request = BuildBlob(test)
    /\ NotScanning
    /\ pc = "call"
    /\ result = None

\* Message::get_query_args_from_multipart_blob(request)
CallGetQueryArgsFromBlob ==
    /\ pc = "call"
    /\ result' = get_query_args_from_multipart_blob(request)
    /\ pc' = "done"
    /\ UNCHANGED <<test, request, first, scanner>>

NextBlob == CallGetQueryArgsFromBlob

SpecBlob == InitBlob /\ [][NextBlob]_vars

\* ------------------------------------------------------------------------
\* Properties
\* ------------------------------------------------------------------------

Returned == pc = "done"

\* C1: from_tcp_stream returns a message exactly when the stored request
\* line has a method other than Invalid and a protocol other than Invalid,
\* so every returned message has a valid method and a valid protocol.
C1_MessageOnlyIfValidLine ==
    Returned =>
        /\ result.some <=>
              /\ message.request_line.method # "Invalid"
              /\ message.request_line.protocol # "Invalid"
        /\ result.some =>
              /\ result.val = message
              /\ result.val.request_line.method \in Methods \ {"Invalid"}
              /\ result.val.request_line.protocol \in Protocols \ {"Invalid"}

\* A buffer of free lines is decoded into a returned HEAD message.
C1_Witness ==
    /\ Returned
    /\ test.family = "lines"
    /\ result.some
    /\ result.val.request_line.method = "Head"

\* C2: for a POST request whose Content-Type header carries the boundary B
\* and whose body holds one part named "file" with a non-empty payload P
\* between the boundary lines "--" B and "--" B "--", from_tcp_stream
\* returns a MultiPart body whose entry "file" has a body equal to P byte
\* for byte, for every B and P.
C2_MultipartRoundTrip ==
    Returned /\ test.family = "multipart" /\ test.method[2] = "Post"
             /\ Len(test.parts) = 1 /\ test.parts[1].payload # <<>>
             /\ test.dashes = ClosingDashes /\ test.separator = CRLF =>
        /\ result.some
        /\ result.val.body.kind = "MultiPart"
        /\ Bytes("file") \in DOMAIN result.val.body.map
        /\ result.val.body.map[Bytes("file")].body = test.parts[1].payload

\* C3: for a POST request whose body holds two parts named "file" and
\* "file2" between boundary lines "--" B, ended by "--" B "--", the MultiPart
\* mapping holds exactly these two names, each with its own payload.
C3_TwoParts ==
    Returned /\ test.family = "multipart" /\ test.method[2] = "Post"
             /\ Len(test.parts) = 2 /\ test.parts \in TwoParts
             /\ test.dashes = ClosingDashes /\ test.separator = CRLF =>
        /\ result.some
        /\ result.val.body.kind = "MultiPart"
        /\ DOMAIN result.val.body.map = {Bytes("file"), Bytes("file2")}
        /\ result.val.body.map[Bytes("file")].body = test.parts[1].payload
        /\ result.val.body.map[Bytes("file2")].body = test.parts[2].payload

C5_NoBodyForHeadDelete ==
    Returned /\ result.some
             /\ result.val.request_line.method \in {"Head", "Delete"} =>
        result.val.body.map = EmptyMap

\* C6: a request whose request line carries an unrecognized method token or
\* an unrecognized protocol label yields no message.
C6_UnrecognizedYieldsNone ==
    Returned /\ test.family = "lines" /\ Len(test.lines) >= 1
             /\ test.lines[1] \in {Bytes("FOO / HTTP/1.1"), Bytes("GET / HTTP/2.5")} =>
        ~result.some

\* C7: from_tcp_stream returns no message for the empty buffer and for
\* every buffer of null bytes only.
C7_NullsNoMessage ==
    Returned /\ test.family = "nulls" => ~result.some

C7_Witness ==
    /\ Returned
    /\ test.family = "nulls"
    /\ Len(request) = MaxNulls
    /\ \A i \in 1..Len(request) : request[i] = NUL
    /\ ~result.some

\* C8: for every buffer b without a null byte, from_tcp_stream on b followed
\* by one or more null bytes gives the same result as from_tcp_stream on b:
\* the same message, or no message in both cases.
C8_NullPaddingTransparent ==
    Returned /\ first.some => result = first.val

\* C9 as claimed: for a line of three tokens with a recognized method and a
\* recognized protocol label, get_request_line returns a Line with the
\* variants of those tokens, the second token as request_uri, and
\* request_uri_base followed by "?" and query_string, when query_string is
\* not empty, equal to request_uri.
C9_ReconstructsWhenQueryNonEmpty ==
    Returned /\ test.family = "three"
             /\ test.method[2] # "Invalid" /\ test.protocol[2] # "Invalid" =>
        /\ result.some
        /\ result.val.method = test.method[2]
        /\ result.val.protocol = test.protocol[2]
        /\ result.val.request_uri = test.uri
        /\ result.val.request_uri_base
              \o (IF result.val.query_string # <<>>
                  THEN <<QUESTION>> \o result.val.query_string ELSE <<>>)
           = result.val.request_uri

\* C9: for a line of three tokens with a recognized method and a recognized
\* protocol label, get_request_line returns a Line with the variants of
\* those tokens, the second token as request_uri, a request_uri_base without
\* '?', and request_uri_base followed by "?" and query_string, when
\* request_uri contains a '?', equal to request_uri.
C9_ThreeTokenLine ==
    Returned /\ test.family = "three"
             /\ test.method[2] # "Invalid" /\ test.protocol[2] # "Invalid" =>
        /\ result.some
        /\ result.val.method = test.method[2]
        /\ result.val.protocol = test.protocol[2]
        /\ result.val.request_uri = test.uri
        /\ \A i \in 1..Len(result.val.request_uri_base) :
              result.val.request_uri_base[i] # QUESTION
        /\ result.val.request_uri_base
              \o (IF \E i \in 1..Len(test.uri) : test.uri[i] = QUESTION
                  THEN <<QUESTION>> \o result.val.query_string ELSE <<>>)
           = result.val.request_uri

\* A request URI that ends with its only '?': the query string is empty.
C9_Witness ==
    /\ Returned
    /\ test.family = "three"
    /\ test.method[2] = "Get"
    /\ test.protocol[2] = "V1_1"
    /\ test.uri = <<Code("/"), QUESTION>>
    /\ result.some
    /\ result.val.request_uri_base = <<Code("/")>>
    /\ result.val.query_string = <<>>

\* C10: for a line of a single token, get_request_line returns no result
\* when the token without its leading and trailing null bytes is empty, and
\* otherwise a Line with method Get, protocol V0_9, that stripped token as
\* request_uri, its part before the first '?' as request_uri_base and its
\* part after the first '?' as query_string.
C10_SingleTokenLine ==
    Returned /\ test.family = "single" =>
        LET token == test.token
            kept == {i \in 1..Len(token) : token[i] # NUL}
            uri == IF kept = {} THEN <<>>
                   ELSE SubSeq(token,
                               CHOOSE i \in kept : \A j \in kept : i <= j,
                               CHOOSE i \in kept : \A j \in kept : j <= i)
            marks == {i \in 1..Len(uri) : uri[i] = QUESTION}
            mark == CHOOSE i \in marks : \A j \in marks : i <= j
        IN  IF uri = <<>> THEN ~result.some
            ELSE /\ result.some
                 /\ result.val.method = "Get"
                 /\ result.val.protocol = "V0_9"
                 /\ result.val.request_uri = uri
                 /\ result.val.request_uri_base =
                       IF marks = {} THEN uri ELSE SubSeq(uri, 1, mark - 1)
                 /\ result.val.query_string =
                       IF marks = {} THEN <<>>
                       ELSE SubSeq(uri, mark + 1, Len(uri))

\* A token with a null byte on each side of "a".
C10_Witness ==
    /\ Returned
    /\ test.family = "single"
    /\ test.token = <<NUL, Code("a"), NUL>>
    /\ result.some
    /\ result.val.request_uri = <<Code("a")>>

\* C11: get_request_line returns no result for every line that, once
\* trimmed, has a number of single-space-separated tokens other than 1 and
\* 3, and for every line of three tokens whose first token is not one of the
\* nine method tokens or whose third token is not one of the four protocol
\* labels, letter for letter.
C11_RefusedLines ==
    Returned /\ test.family = "words" =>
        LET words == test.words
            kept == {i \in 1..Len(words) : words[i] # <<>>}
            core == IF kept = {} THEN <<>>
                    ELSE SubSeq(words,
                                CHOOSE i \in kept : \A j \in kept : i <= j,
                                CHOOSE i \in kept : \A j \in kept : j <= i)
            count == IF core = <<>> THEN 1 ELSE Len(core)
        IN  /\ count \notin {1, 3} => ~result.some
            /\ count = 3
                  /\ \/ core[1] \notin {Bytes(m[1]) : m \in MethodTokens}
                     \/ core[3] \notin {Bytes(p[1]) : p \in ProtocolTokens}
               => ~result.some

\* A line of two tokens, and a line of three tokens with the method in
\* lower case, are refused.
C11_Witness ==
    /\ Returned
    /\ test.family = "words"
    /\ test.words \in {<<Bytes("GET"), Bytes("/")>>,
                       <<Bytes("get"), Bytes("/"), Bytes("HTTP/1.1")>>}
    /\ ~result.some

\* The text of s between its first and its last byte other than c.
Stripped(s, c) ==
    IF \A i \in 1..Len(s) : s[i] = c THEN <<>>
    ELSE SubSeq(s,
                CHOOSE i \in 1..Len(s) :
                    s[i] # c /\ \A j \in 1..(i - 1) : s[j] = c,
                CHOOSE i \in 1..Len(s) :
                    s[i] # c /\ \A j \in (i + 1)..Len(s) : s[j] = c)

\* Train-Case: a letter that starts the key or follows a '-' is not in lower
\* case, and every other letter is not in upper case.
IsTrainCase(key) ==
    \A i \in 1..Len(key) :
        IF i = 1 \/ key[i - 1] = DASH
        THEN ~(key[i] >= 97 /\ key[i] <= 122)
        ELSE ~(key[i] >= 65 /\ key[i] <= 90)

\* s and t are the same text when letter case is ignored.
SameLetters(s, t) ==
    /\ Len(s) = Len(t)
    /\ \A i \in 1..Len(s) :
          (IF s[i] >= 65 /\ s[i] <= 90 THEN s[i] + 32 ELSE s[i])
          = (IF t[i] >= 65 /\ t[i] <= 90 THEN t[i] + 32 ELSE t[i])

\* C12: get_header_field returns no result for every line without a ':',
\* the empty line included; for a line with a ':' it returns as key the
\* Train-Case form of the text before the first ':' without the white space
\* around it, and as value the parse of the text after that ':' without the
\* white space around it.
C12_HeaderField ==
    pc = "parsed" /\ test.family = "line" /\ ~first.some =>
        LET raw == test.raw
            colons == {i \in 1..Len(raw) : raw[i] = COLON}
            colon == CHOOSE i \in colons : \A j \in colons : i <= j
        IN  IF colons = {} THEN ~result.some
            ELSE /\ result.some
                 /\ IsTrainCase(result.val.key)
                 /\ SameLetters(result.val.key,
                                Stripped(SubSeq(raw, 1, colon - 1), SPACE))
                 /\ result.val.value =
                       HeaderParts(Stripped(SubSeq(raw, colon + 1, Len(raw)),
                                            SPACE))

\* A key in mixed case with spaces around it, and a line without a ':'.
C12_Witness ==
    /\ pc = "parsed"
    /\ ~first.some
    /\ \/ /\ test.family = "line"
          /\ test.raw = <<SPACE, Code("a"), Code("B"), COLON>>
          /\ result.some
          /\ result.val.key = Bytes("Ab")
       \/ /\ test.family = "line"
          /\ test.raw = <<Code("a"), DASH, Code("B")>>
          /\ ~result.some

\* C13: capitalize_key applied to its own result returns that result, and
\* capitalize_key returns the same key for two keys that differ in letter
\* case only.
C13_IdempotentCaseInsensitive ==
    /\ pc = "twice" => result = first
    /\ pc = "variant" => result = first

\* The position of the k-th byte c of s; 0 for k = 0, and the position after
\* the end of s when s has fewer.
Cut(s, c, k) ==
    IF k = 0 THEN 0
    ELSE IF k > Cardinality({i \in 1..Len(s) : s[i] = c}) THEN Len(s) + 1
    ELSE CHOOSE p \in 1..Len(s) :
            /\ s[p] = c
            /\ Cardinality({q \in 1..(p - 1) : s[q] = c}) = k - 1

\* The texts between the bytes c of s, in order.
Pieces(s, c) ==
    [k \in 1..(Cardinality({i \in 1..Len(s) : s[i] = c}) + 1) |->
        SubSeq(s, Cut(s, c, k - 1) + 1, Cut(s, c, k) - 1)]

\* C14: get_query_args_from_string returns no mapping for the empty text;
\* for any other text it returns the mapping that holds, for each item
\* between the '&' characters, the text before the item's first '=' as key
\* with all the text after that '=' as value, or the item as key with the
\* value "1" when the item has no '=' (the last item of a key gives its
\* value); a returned mapping is never empty.
C14_QueryTokenizer ==
    Returned /\ test.family = "query" =>
        LET items == Pieces(test.subject, AMPERSAND)
            KeyOf(item) == SubSeq(item, 1, Cut(item, EQUALS, 1) - 1)
            ValueOf(item) ==
                IF \E i \in 1..Len(item) : item[i] = EQUALS
                THEN SubSeq(item, Cut(item, EQUALS, 1) + 1, Len(item))
                ELSE Bytes("1")
        IN  IF test.subject = <<>> THEN ~result.some
            ELSE /\ result.some
                 /\ DOMAIN result.val # {}
                 /\ DOMAIN result.val =
                       {KeyOf(items[i]) : i \in 1..Len(items)}
                 /\ \A i \in 1..Len(items) :
                       (\A j \in (i + 1)..Len(items) :
                           KeyOf(items[j]) # KeyOf(items[i]))
                       => result.val[KeyOf(items[i])] = ValueOf(items[i])

\* a comes before b in lexicographic order.
Before(a, b) ==
    \E i \in 1..(Len(a) + 1) :
        /\ i <= Len(b)
        /\ \A j \in 1..(i - 1) : a[j] = b[j]
        /\ i <= Len(a) => a[i] < b[i]

\* The keys of a header mapping in ascending order.
Ascending(headers) ==
    CHOOSE order \in [1..Cardinality(DOMAIN headers) -> DOMAIN headers] :
        \A i \in DOMAIN order : \A j \in DOMAIN order :
            i < j => Before(order[i], order[j])

\* C15: to_bytes returns the protocol, a space, the status and CRLF, then
\* for each header, in ascending lexicographic order of the keys, the key,
\* ": ", the value and CRLF, then one CRLF, then the bytes of the body as
\* they are, for every header mapping and every body.
C15_ToBytes ==
    pc = "done" /\ test.family = "response"
                /\ first[Len(first)].op = "to_bytes" =>
        LET self == first[Len(first)].self
            order == Ascending(self.headers)
        IN  result.val =
                self.protocol \o <<SPACE>> \o self.status \o CRLF
                \o Flatten([i \in 1..Len(order) |->
                               order[i] \o <<COLON, SPACE>>
                               \o self.headers[order[i]] \o CRLF])
                \o CRLF
                \o self.body

\* to_bytes on a message with the four headers and a body that is not text.
C15_Witness ==
    /\ pc = "done"
    /\ test.family = "response"
    /\ Len(first) = 1
    /\ first[1].op = "to_bytes"
    /\ DOMAIN test.headers = ResponseKeys
    /\ test.body = <<255>>
    /\ result.val =
          test.protocol \o <<SPACE>> \o test.status \o CRLF
          \o Bytes("A: ") \o test.headers[Bytes("A")] \o CRLF
          \o Bytes("Ab: ") \o test.headers[Bytes("Ab")] \o CRLF
          \o Bytes("B: ") \o test.headers[Bytes("B")] \o CRLF
          \o Bytes("a: ") \o test.headers[Bytes("a")] \o CRLF
          \o CRLF \o <<255>>

\* The sub-part that the text `sub` between two ',' stands for.
SubPartOf(sub) ==
    IF \E i \in 1..Len(sub) : sub[i] = EQUALS
    THEN [kind |-> "KeyValue",
          key |-> Stripped(SubSeq(sub, 1, Cut(sub, EQUALS, 1) - 1), SPACE),
          value |-> Stripped(SubSeq(sub, Cut(sub, EQUALS, 1) + 1, Len(sub)),
                             SPACE)]
    ELSE [kind |-> "Single", text |-> Stripped(sub, SPACE)]

\* The positions <<block, sub-part>> of the pairs of `parts` with the key.
Hits(parts, key) ==
    {h \in UNION {{<<i, j>> : j \in 1..Len(parts[i])} : i \in 1..Len(parts)} :
        /\ parts[h[1]][h[2]].kind = "KeyValue"
        /\ parts[h[1]][h[2]].key = key}

\* The first position of a non-empty set of positions, blocks first.
FirstHit(hits) ==
    CHOOSE h \in hits :
        \A g \in hits : h[1] < g[1] \/ (h[1] = g[1] /\ h[2] <= g[2])

\* C16: the value of a header field has one block for each text between
\* the ';' of the trimmed value and, in a block, one sub-part for each text
\* between its ','; a sub-part with '=' is KeyValue of the trimmed texts
\* before and after its first '=', any other is Single of its trimmed text,
\* and the empty value gives one block of one empty Single part.
\* get_key_value(key) returns the value of the first KeyValue sub-part with
\* that key, blocks in order and sub-parts in order, and nothing when
\* there is none.
C16_HeaderValue ==
    /\ pc = "parsed" /\ test.family = "value" /\ ~first.some =>
          LET blocks == Pieces(Stripped(test.value, SPACE), SEMICOLON)
              parts == result.val.value
          IN  /\ result.some
              /\ Len(parts) = Len(blocks)
              /\ \A i \in 1..Len(blocks) :
                    /\ Len(parts[i]) = Len(Pieces(blocks[i], COMMA))
                    /\ \A j \in 1..Len(parts[i]) :
                          parts[i][j] = SubPartOf(Pieces(blocks[i], COMMA)[j])
              /\ Stripped(test.value, SPACE) = <<>> =>
                    parts = <<<<[kind |-> "Single", text |-> <<>>]>>>>
    /\ pc = "done" /\ test.family = "value" =>
          first.val.out =
              IF Hits(result.val.value, first.val.key) = {} THEN None
              ELSE LET hit == FirstHit(Hits(result.val.value, first.val.key))
                   IN  Some(result.val.value[hit[1]][hit[2]].value)

\* The key "a" is looked up in a value whose first block holds a Single
\* part and whose second block holds the pairs a=b and a=a: the value of
\* the pair a=b is returned.
C16_Witness ==
    /\ pc = "done"
    /\ test.family = "value"
    /\ test.value = Bytes("a;a=b,a=a,")
    /\ result.val.value =
          <<<<Single(Bytes("a"))>>,
            <<KeyValue(Bytes("a"), Bytes("b")),
              KeyValue(Bytes("a"), Bytes("a")),
              Single(<<>>)>>>>
    /\ first.val.key = Bytes("a")
    /\ first.val.out = Some(Bytes("b"))

\* C17: for every header value v, the text that to_string gives for the
\* parse of v is parsed into the same blocks, with the same sub-parts of the
\* same variants and texts, as v.
C17_RoundTrip ==
    pc = "parsed" /\ first.some =>
        /\ result.some
        /\ result.val.value = first.val.value

\* The value " a = b=a ;a," is written back as "a=b=a; a, " and parsed into
\* the same two blocks again.
C17_Witness ==
    /\ pc = "parsed"
    /\ first.some
    /\ test.family = "value"
    /\ test.value = Bytes(" a = b=a ;a,")
    /\ request = Bytes("K:a=b=a; a, ")
    /\ result.val.value =
          <<<<KeyValue(Bytes("a"), Bytes("b=a"))>>,
            <<Single(Bytes("a")), Single(<<>>)>>>>
    /\ result.val.value = first.val.value

\* C18: from_tcp_stream returns on every buffer; while it scans, each step
\* moves the byte position forward by exactly one, so that no byte is
\* looked at twice, and the position never moves back; and the scan ends
\* only past the last byte, on the last byte or on a null byte.
C18_Terminates ==
    /\ <>(pc = "done")
    /\ [][/\ end' \in {end, end + 1}
          /\ pc = "loop" /\ pc' = "loop" => end' = end + 1
          /\ end' = end + 1 => pc = "loop" /\ end < Len(request)]_vars
    /\ [](pc \in {"return", "done"} =>
            \/ end = Len(request)
            \/ end = Len(request) - 1
            \/ request[end + 1] = NUL)

\* A scan that a null byte has ended before the last byte of the buffer.
C18_Witness ==
    /\ pc = "done"
    /\ test.family = "lines"
    /\ Len(test.lines) = MaxLines
    /\ end < Len(request) - 1
    /\ request[end + 1] = NUL

\* C19: the encoders leave the message as it was built, whatever calls of
\* to_bytes, to_string and header_to_string are made on it, and a repeated
\* call of an encoder returns what its first call returned.
C19_EncodingKeepsMessage ==
    test.family = "response" =>
        /\ message = NewMessage(test.protocol, test.status, test.headers,
                                test.body)
        /\ \A i \in DOMAIN first : \A j \in DOMAIN first :
              first[i].op = first[j].op => first[i].out = first[j].out

\* The line that the step from the current state hands to parse_line, if
\* it hands one: a line ended by CRLF, by a null byte or by the last byte.
DispatchedLine ==
    IF ~InLoop \/ parser_mode.tag # "Lines" \/ byte = CR THEN None
    ELSE IF byte = LF /\ last_was_carriage_return
         THEN IF IsUtf8(Slice(request, start, end - 1))
              THEN Some(Slice(request, start, end - 1)) ELSE None
    ELSE IF byte = NUL \/ end = last_index
         THEN IF IsUtf8(Slice(request, start, CleanEnd))
              THEN Some(Slice(request, start, CleanEnd)) ELSE None
    ELSE None

\* C20: the section changes only from Line to HeaderFields and from
\* HeaderFields to MessageBody; in Line no request line is stored; a step
\* leaves Line exactly when it hands parse_line a line that
\* get_request_line accepts, and it stores that line; and once the section
\* is not Line the stored request line is never changed.
C20_SectionForward ==
    /\ [](section = "Line" => message.request_line = InvalidLine)
    /\ [][/\ section' # section =>
                \/ section = "Line" /\ section' = "HeaderFields"
                \/ section = "HeaderFields" /\ section' = "MessageBody"
          /\ section = "Line" =>
                IF DispatchedLine.some
                      /\ get_request_line(DispatchedLine.val).some
                THEN /\ section' = "HeaderFields"
                     /\ message'.request_line =
                           get_request_line(DispatchedLine.val).val
                ELSE section' = "Line"
          /\ section # "Line" =>
                message'.request_line = message.request_line]_vars

\* After a refused line the section is still Line; the next line is
\* accepted, and the section is HeaderFields with that line stored.
C20_Witness ==
    /\ pc = "done"
    /\ test.family = "lines"
    /\ test.lines = <<Bytes("FOO / HTTP/1.1"), Bytes("GET / HTTP/1.1")>>
    /\ test.ending = CRLF
    /\ section = "HeaderFields"
    /\ message.request_line.raw = Bytes("GET / HTTP/1.1")

\* The step from the current state is the one that ends the scan in Lines
\* mode: the byte is a null byte or the last byte of the buffer, and it is
\* not the LF that ends a line after a CR.
AtTrailingLine ==
    /\ InLoop
    /\ parser_mode.tag = "Lines"
    /\ byte = NUL \/ end = last_index
    /\ ~(byte = LF /\ last_was_carriage_return)

\* The bytes of the line that no CRLF has ended.
TrailingLine == Slice(request, start, CleanEnd)

\* C21: in Lines mode, the step at a null byte or at the last byte of the
\* buffer hands the bytes of the unterminated line (when they are text) to
\* parse_line, and the scan ends with that step.
C21_TrailingLineDispatched ==
    [][AtTrailingLine /\ IsUtf8(TrailingLine) =>
          /\ ParseLine(TrailingLine)
          /\ pc' = "return"]_vars

\* The greatest element of a non-empty set of numbers.
Greatest(S) == CHOOSE m \in S : \A x \in S : x <= m

\* The positions just after the CRLFs that lie before position `at`.
AfterCrLfs(at) == {i \in 2..at : request[i] = LF /\ request[i - 1] = CR}

\* Where the line that holds position `at` begins: after the last CRLF
\* before it, or at the start of the buffer.
LineStart(at) == IF AfterCrLfs(at) = {} THEN 0 ELSE Greatest(AfterCrLfs(at))

\* The byte of the current step is the LF of a CRLF.
AtCrLf ==
    /\ InLoop
    /\ parser_mode.tag = "Lines"
    /\ byte = LF
    /\ end >= 1
    /\ request[end] = CR

\* The bytes from the end of the previous CRLF to the CR of this one.
LineAtCrLf == Slice(request, LineStart(end), end - 1)

\* C22: in Lines mode the line the scanner is in starts after the previous
\* CRLF; the step at the LF of a CRLF hands parse_line exactly the bytes
\* from there to the CR when they are text, and changes nothing of the
\* message, the section and the mode when they are not; and a header line
\* without ':' changes none of the three.
C22_LinesSplit ==
    /\ [](pc = "loop" /\ parser_mode.tag = "Lines" => start = LineStart(end))
    /\ [][AtCrLf =>
            /\ IF IsUtf8(LineAtCrLf)
               THEN ParseLine(LineAtCrLf)
               ELSE UNCHANGED <<message, section, parser_mode>>
            /\ (/\ section = "HeaderFields"
                /\ Trim(LineAtCrLf) # <<>>
                /\ \A i \in DOMAIN LineAtCrLf : LineAtCrLf[i] # COLON)
               => UNCHANGED <<message, section, parser_mode>>]_vars

\* The position of the first byte after the blank line that ends the
\* header section of a request built from t.
HeaderSectionEnd(t) == Len(t.line.line) + 2 + Len(t.headers) + 2

\* The lines of a block of lines that each end with CRLF.
RECURSIVE BlockLines(_)
BlockLinesAt(block, cr) ==
    <<Slice(block, 0, cr)>> \o BlockLines(SliceFrom(block, cr + 2))

BlockLines(block) ==
    IF block = <<>> THEN <<>> ELSE BlockLinesAt(block, Find(block, CR))

\* The header mapping after the lines have been inserted in order.
RECURSIVE HeadersFrom(_, _)
HeadersFrom(headers, lines) ==
    IF lines = <<>> THEN headers
    ELSE HeadersFrom(InsertField(headers, get_header_field(Head(lines))),
                     Tail(lines))

\* The header mapping of the header lines of t.
HeadersOf(t) == HeadersFrom(EmptyMap, BlockLines(t.headers))

\* C23: once the scan is past the blank line that ends the header section,
\* the header mapping holds the entries of the header lines before that
\* blank line and nothing else, and no later step changes it, whatever the
\* method is.
C23_HeadersEndAtBlankLine ==
    /\ [](test.family = "request" /\ end >= HeaderSectionEnd(test) =>
            message.headers = HeadersOf(test))
    /\ [][test.family = "request" /\ end >= HeaderSectionEnd(test) =>
            message'.headers = message.headers]_vars

\* The header fields of the header lines of t, line by line.
FieldsOf(t) ==
    [i \in DOMAIN BlockLines(t.headers) |->
        get_header_field(BlockLines(t.headers)[i])]

\* The last of the fields with the key of field i.
LastWithKey(fields, i) ==
    fields[Greatest({j \in DOMAIN fields :
                        fields[j].some /\ fields[j].val.key = fields[i].val.key})]

\* The mapping holds one entry for each key of the fields, with the value of
\* the last field of that key.
LastWins(headers, fields) ==
    /\ DOMAIN headers = {fields[i].val.key : i \in {j \in DOMAIN fields : fields[j].some}}
    /\ \A i \in DOMAIN fields :
          fields[i].some =>
              headers[fields[i].val.key] = LastWithKey(fields, i).val.value

\* The header mappings of the parts of a body.
PartHeaders(body) ==
    IF body.kind = "MultiPart"
    THEN {body.map[n].headers : n \in DOMAIN body.map}
    ELSE {}

\* C24: every key of the header mapping and of the header mapping of every
\* part is in Train-Case form, and when the header section is complete the
\* mapping holds, for each canonical key of its lines, the value of the last
\* line with that key.
C24_CanonicalKeys ==
    /\ \A key \in DOMAIN message.headers : IsTrainCase(key)
    /\ \A headers \in PartHeaders(message.body) :
          \A key \in DOMAIN headers : IsTrainCase(key)
    /\ test.family = "request" /\ end = HeaderSectionEnd(test) =>
          LastWins(message.headers, FieldsOf(test))

\* A text of white space only, given as its characters.
IsBlank(chars) == \A i \in DOMAIN chars : chars[i] \in WhiteSpace

\* The step from the current state hands parse_line a line of white space
\* only while the section is HeaderFields.
AtBlankLine ==
    /\ section = "HeaderFields"
    /\ DispatchedLine.some
    /\ IsBlank(Chars(DispatchedLine.val))

\* The positions of the boundary parameters of the Content-Type header.
BoundaryHits ==
    IF CONTENT_TYPE \in DOMAIN message.headers
    THEN Hits(message.headers[CONTENT_TYPE], BOUNDARY)
    ELSE {}

\* The sub-part of a header value at a position.
PartAt(parts, hit) == parts[hit[1]][hit[2]]

\* The token of the first boundary parameter.
BoundaryToken == PartAt(message.headers[CONTENT_TYPE], FirstHit(BoundaryHits)).value

\* C25: the step at a blank line in the header section switches the mode to
\* Boundaries of the boundary token and sets the body to the empty MultiPart
\* mapping when the Content-Type header has a boundary parameter, and
\* changes neither when it has none; no other step changes the mode; and
\* the body is MultiPart exactly while the mode is Boundaries.
C25_BoundarySwitch ==
    /\ [](message.body.kind = "MultiPart" <=> parser_mode.tag = "Boundaries")
    /\ [][/\ AtBlankLine =>
                IF BoundaryHits # {}
                THEN /\ parser_mode' = Boundaries(BoundaryToken)
                     /\ message'.body = MultiPart(EmptyMap)
                ELSE /\ parser_mode' = parser_mode
                     /\ message'.body = message.body
          /\ parser_mode' # parser_mode => AtBlankLine]_vars

\* A request with a boundary parameter has been scanned in Boundaries mode
\* to its end, and a part has been put into its MultiPart mapping.
C25_Witness ==
    /\ pc = "done"
    /\ test.family = "multipart"
    /\ parser_mode = Boundaries(test.boundary)
    /\ message.body.kind = "MultiPart"
    /\ message.body.map # EmptyMap

\* C26: a step taken in Boundaries mode leaves the mode, the request line,
\* the header mapping, the section and the start of the current line as
\* they are, and the body stays a MultiPart mapping; the mode is Boundaries
\* until the call has returned.
C26_BoundariesFrame ==
    [][parser_mode.tag = "Boundaries" =>
          /\ parser_mode' = parser_mode
          /\ message'.request_line = message.request_line
          /\ message'.headers = message.headers
          /\ message'.body.kind = "MultiPart"
          /\ section' = section
          /\ start' = start
          /\ request' = request]_vars

\* The scanner is in the payload of the second part, in Boundaries mode,
\* after the first part was put into the MultiPart mapping.
C26_Witness ==
    /\ pc = "loop"
    /\ test.family = "multipart"
    /\ Len(test.parts) = 2
    /\ parser_mode.tag = "Boundaries"
    /\ multipart_section = "End"
    /\ DOMAIN message.body.map = {Bytes("file")}
    /\ start < start_data

\* C27: in Boundaries mode the step at a null byte ends the scan there, in
\* every state of the multipart scanner: the loop is left with the byte
\* position on the null byte, and the scanner state and the message are as
\* they were before the step.
C27_NullEndsScan ==
    [][InLoop /\ parser_mode.tag = "Boundaries" /\ byte = NUL =>
          /\ pc' = "return"
          /\ end' = end
          /\ multipart_section' = multipart_section
          /\ message' = message]_vars

\* The token is what is left of the bytes when dashes are taken out of them.
RECURSIVE DashMatch(_, _)
DashMatch(bytes, token) ==
    IF token = <<>> THEN bytes = <<>>
    ELSE IF bytes = <<>> THEN FALSE
    ELSE \/ Head(bytes) = Head(token) /\ DashMatch(Tail(bytes), Tail(token))
         \/ Head(bytes) = DASH /\ DashMatch(Tail(bytes), token)

\* The bytes of the buffer that end at the current byte hold the token from
\* its first byte to its last, with nothing but dashes in between.
TokenEndsHere(token) ==
    \E from \in 0..end :
        /\ request[from + 1] = token[1]
        /\ DashMatch(Slice(request, from, end + 1), token)

\* The step from the current state reports a full boundary match.
FullMatch ==
    /\ multipart_section \in {"Start", "EndBoundary"}
    /\ multipart_section' = "StartSuffix"

\* C28: the scanner moves from Start or EndBoundary to StartSuffix, and
\* closes a part, only on a byte at which the whole boundary token ends in
\* the buffer, extra dashes apart.
C28_FullBoundaryMatch ==
    [][parser_mode.tag = "Boundaries" =>
          /\ FullMatch => TokenEndsHere(parser_mode.boundary)
          /\ message'.body # message.body =>
                FullMatch /\ multipart_section = "EndBoundary"]_vars

\* The byte of the current step is an LF right after a CR.
LfAfterCr == byte = LF /\ end >= 1 /\ request[end] = CR

\* C29: in End, a step moves the scanner to EndSecondary only at an LF
\* right after a CR, and then it records the position of that CR as the
\* end of the payload; the step at any other byte leaves the scanner in
\* End with the recorded end as it was.
C29_EndOnCrLf ==
    [][InLoop /\ parser_mode.tag = "Boundaries" /\ multipart_section = "End" =>
          /\ multipart_section' \in {"End", "EndSecondary"}
          /\ multipart_section' = "EndSecondary" =>
                /\ LfAfterCr
                /\ end_data' = end - 1
                /\ request[end_data' + 1] = CR
          /\ ~LfAfterCr =>
                /\ multipart_section' = "End"
                /\ end_data' = end_data]_vars

\* C30: in StartSuffix, the step at an LF right after a CR sets start_data
\* to the position of that byte and moves the scanner to End; the step at
\* any other byte leaves the scanner in StartSuffix with start_data as it
\* was.
C30_StartSuffixUntilCrLf ==
    [][InLoop /\ parser_mode.tag = "Boundaries"
              /\ multipart_section = "StartSuffix" =>
          IF LfAfterCr
          THEN /\ multipart_section' = "End"
               /\ start_data' = end
          ELSE /\ multipart_section' = "StartSuffix"
               /\ start_data' = start_data]_vars

\* C31: in Skipping, the step at an LF right after a CR moves the scanner
\* to Start with the candidate start offset on the byte after that LF, and
\* the step at any other byte leaves it in Skipping with the offset as it
\* was; so after a loss of synchronization in Start the scanner is back in
\* Start at the beginning of the next line.
C31_SkippingUntilCrLf ==
    [][InLoop /\ parser_mode.tag = "Boundaries"
              /\ multipart_section = "Skipping" =>
          IF LfAfterCr
          THEN /\ multipart_section' = "Start"
               /\ start_boundary' = end + 1
          ELSE /\ multipart_section' = "Skipping"
               /\ start_boundary' = start_boundary]_vars

\* The scanner is in Start or in EndBoundary, at a byte that differs from
\* the byte of the token expected at the current position.
AtMismatch ==
    /\ InLoop
    /\ parser_mode.tag = "Boundaries"
    /\ multipart_section \in {"Start", "EndBoundary"}
    /\ end >= start_boundary
    /\ end - start_boundary < Len(parser_mode.boundary)
    /\ byte # parser_mode.boundary[end - start_boundary + 1]

\* The byte is a dash after the candidate start offset, and the byte of the
\* token just before the expected one is a dash too.
ExtraDash ==
    /\ byte = DASH
    /\ start_boundary < end
    /\ parser_mode.boundary[end - start_boundary] = DASH

\* The state the scanner falls back to when it loses synchronization.
Lost == IF multipart_section = "Start" THEN "Skipping" ELSE "End"

\* C32: in Start and in EndBoundary, at a byte that differs from the
\* expected byte of the token, an extra dash moves the candidate start
\* offset forward by one and leaves the state as it is, and every other
\* byte makes Start fall back to Skipping and EndBoundary to End with the
\* offset as it was; in both cases no part is closed.
C32_DashAbsorbed ==
    [][AtMismatch =>
          /\ IF ExtraDash
             THEN /\ start_boundary' = start_boundary + 1
                  /\ multipart_section' = multipart_section
             ELSE /\ start_boundary' = start_boundary
                  /\ multipart_section' = Lost
          /\ message' = message
          /\ pc' = "loop"]_vars

\* In EndBoundary the candidate start offset has moved past the byte after
\* the CRLF where End set it: a dash was absorbed.
C32_Witness ==
    /\ pc = "loop"
    /\ parser_mode.tag = "Boundaries"
    /\ multipart_section = "EndBoundary"
    /\ start_boundary > end_data + 2
    /\ request[start_boundary] = DASH

SpanInRange ==
    start_data > 0 /\ start_data < end_data /\ end_data < Len(request)

\* What the part extractor returns for the span.
Extracted == get_query_args_from_multipart_blob(
                 Slice(request, start_data, end_data))

\* C34: at a full boundary match in EndBoundary the part that the extractor
\* returns for the span from start_data to end_data is put into the mapping
\* when the span is in range and the extractor returns one, and the mapping
\* is left as it was otherwise; the scan goes on in StartSuffix in both
\* cases, and when every delimiter line is matched a part that follows a
\* dropped part is in the returned mapping.
C34_ClosePart ==
    /\ [][FullMatch /\ multipart_section = "EndBoundary" =>
             /\ message'.body =
                   IF SpanInRange /\ Extracted.some
                   THEN MultiPart(Insert(message.body.map, Extracted.val.key,
                                         Extracted.val.value))
                   ELSE message.body
             /\ pc' = "loop"
             /\ end' = end + 1]_vars
    /\ [](Returned /\ test.family = "multipart"
                   /\ test.parts \in DroppedParts
                   /\ test.boundary = Bytes("--X") =>
             /\ result.some
             /\ DOMAIN result.val.body.map =
                   {test.parts[i].name :
                       i \in {j \in 1..2 : /\ test.parts[j].name # <<>>
                                           /\ test.parts[j].payload # <<>>}}
             /\ \A n \in DOMAIN result.val.body.map :
                   result.val.body.map[n].body = Bytes("a"))

\* A part with no payload was dropped and the part after it was extracted.
C34_Witness ==
    /\ Returned
    /\ test.family = "multipart"
    /\ test.parts \in DroppedParts
    /\ test.parts[1].payload = <<>>
    /\ result.some
    /\ DOMAIN result.val.body.map = {Bytes("file2")}

\* The header lines of a part that the extractor reads as text: those
\* before the first line that is not UTF-8.
RECURSIVE TextLines(_)
TextLines(ls) ==
    IF ls = <<>> \/ ~IsUtf8(Head(ls).text) THEN <<>>
    ELSE <<Head(ls)>> \o TextLines(Tail(ls))

\* The name parameter, as written, of the last Content-Disposition line
\* among ls; empty when there is none.
NameWritten(ls) ==
    IF \E i \in DOMAIN ls : ls[i].cd
    THEN ls[Greatest({i \in DOMAIN ls : ls[i].cd})].name
    ELSE <<>>

\* C35: the part the extractor returns has a non-empty name, which is the
\* name parameter of its Content-Disposition header without the double
\* quotes around it (and so the one written on the last such line of the
\* part that is read), and a non-empty payload; a part whose header lines
\* give no name, or that has no byte after its header lines and its blank
\* line, is not returned.
C35_NamedAndFilled ==
    Returned =>
        /\ result.some =>
              /\ result.val.key # <<>>
              /\ result.val.value.body # <<>>
              /\ CONTENT_DISPOSITION \in DOMAIN result.val.value.headers
              /\ get_key_value(result.val.value.headers[CONTENT_DISPOSITION],
                               NAME).some
              /\ result.val.key =
                    Stripped(get_key_value(
                                 result.val.value.headers[CONTENT_DISPOSITION],
                                 NAME).val, QUOTE)
              /\ result.val.key =
                    Stripped(NameWritten(TextLines(test.lines)), QUOTE)
        /\ \/ Stripped(NameWritten(test.lines), QUOTE) = <<>>
           \/ test.payload = <<>>
           => ~result.some

\* A part named ""c" is returned under the name c.
C35_Witness ==
    /\ Returned
    /\ result.some
    /\ NameWritten(test.lines) = Bytes("\"\"c\"")
    /\ result.val.key = Bytes("c")

\* The positions (Rust indices) of the line feeds of the CRLFs of data.
CrLfs(data) == {i \in 1..(Len(data) - 1) : data[i] = CR /\ data[i + 1] = LF}

\* The line of data that the CRLF at i ends, with its carriage return.
CrLfLine(data, i) ==
    Slice(data,
          IF \E j \in CrLfs(data) : j < i
          THEN Greatest({j \in CrLfs(data) : j < i}) + 1
          ELSE 0,
          i)

\* The CRLFs of data that end a line of white space only.
BlankLines(data) ==
    {i \in CrLfs(data) :
        /\ IsUtf8(CrLfLine(data, i))
        /\ IsBlank(Chars(CrLfLine(data, i)))}

\* The header field on a line, if it is text and holds one.
FieldOn(line) == IF IsUtf8(line) THEN get_header_field(line) ELSE None

\* The header fields on the lines of data ended by the CRLFs of S, the
\* later ones replacing the earlier ones of the same key.
RECURSIVE FieldsOn(_, _)
FieldsOn(data, S) ==
    IF S = {} THEN EmptyMap
    ELSE InsertField(FieldsOn(data, S \ {Greatest(S)}),
                     FieldOn(CrLfLine(data, Greatest(S))))

\* C36: when the slice has a blank line, the part the extractor returns has
\* the header fields of the lines before the first blank line, and its
\* payload is the bytes after that blank line, bare LF bytes and CRLFs
\* included.
C36_PayloadAfterBlankLine ==
    Returned /\ BlankLines(request) # {} /\ result.some =>
        /\ result.val.value.body =
              SliceFrom(request, Min(BlankLines(request)) + 1)
        /\ result.val.value.headers =
              FieldsOn(request,
                       {i \in CrLfs(request) : i < Min(BlankLines(request))})

\* The numbers of bytes of CutRequest after which a delimiter line has its
\* token complete: the opening one, the one after each part.
DelimiterEnds ==
    {e \in 7..Len(CutRequest) :
        SubSeq(CutRequest, e - 6, e) = CRLF \o ClosingDashes \o Bytes("--X")}

\* The names of the parts of CutRequest whose following delimiter is
\* complete within the first `at` bytes.
ClosedBefore(at) ==
    {<<Bytes("file"), Bytes("file2")>>[i] :
        i \in {j \in 1..2 :
                 Cardinality({e \in DelimiterEnds : e <= at}) >= j + 1}}

\* The mapping of a body; empty for a body that is not MultiPart.
PartsOf(body) == IF body.kind = "MultiPart" THEN body.map ELSE EmptyMap

\* C37: while boundaries are scanned the message changes only at a step
\* where the scanner in EndBoundary matches the whole boundary, and then
\* only by parts put into its mapping, the other entries staying as they
\* are; the step that leaves the loop, at the end of the buffer or at a
\* null byte, and the return leave the message as it is, and the message
\* is returned when its request line is valid; a request cut short, or
\* holding a null byte, after `at` bytes is returned with exactly the parts
\* whose following delimiter is complete within those bytes.
C37_PartsAtMatchOnly ==
    /\ [][parser_mode.tag = "Boundaries" /\ message' # message =>
             /\ FullMatch
             /\ multipart_section = "EndBoundary"
             /\ message'.request_line = message.request_line
             /\ message'.headers = message.headers
             /\ message'.body.kind = "MultiPart"
             /\ Cardinality(DOMAIN message'.body.map
                                \ DOMAIN message.body.map) <= 1
             /\ \A n \in DOMAIN message.body.map :
                   /\ n \in DOMAIN message'.body.map
                   /\ \/ message'.body.map[n] = message.body.map[n]
                      \/ /\ Extracted.some
                         /\ Extracted.val.key = n]_vars
    /\ [][parser_mode.tag = "Boundaries" /\ pc = "loop" /\ pc' # "loop" =>
             message' = message]_vars
    /\ [][pc = "return" =>
             /\ message' = message
             /\ result'.some <=>
                   /\ message.request_line.method # "Invalid"
                   /\ message.request_line.protocol # "Invalid"
             /\ result'.some => result'.val = message]_vars
    /\ [](Returned /\ test.family = "cut" =>
             /\ result.some
             /\ DOMAIN PartsOf(result.val.body) = ClosedBefore(test.at))

\* The byte of the current iteration ends a line in Lines mode with a CRLF.
AtLineEnd ==
    InLines /\ byte = LF /\ last_was_carriage_return

\* The byte of the current iteration ends the last line in Lines mode: it
\* is a null byte or the last byte of the buffer.
AtLastLine ==
    /\ InLines
    /\ byte # CR
    /\ ~(byte = LF /\ last_was_carriage_return)
    /\ byte = NUL \/ end = last_index

\* The byte of the current iteration is compared with the boundary token.
AtTokenIndex ==
    /\ InLoop
    /\ parser_mode.tag = "Boundaries"
    /\ multipart_section \in {"Start", "EndBoundary"}

\* The byte of the current iteration completes the token in EndBoundary.
AtClosingMatch ==
    /\ InLoop
    /\ parser_mode.tag = "Boundaries"
    /\ multipart_section = "EndBoundary"
    /\ end - start_boundary + 1 = Len(parser_mode.boundary)
    /\ parser_mode.boundary[Len(parser_mode.boundary)] = byte

\* C38: the decode never ends abnormally; at every line that is handed on
\* the line's start is not after its end and the end is within the buffer;
\* whenever the boundary token is indexed start_boundary is not after the
\* current position; end - 1 is taken only at a position after the first;
\* and whenever a boundary closes a part the span from start_data to
\* end_data is not empty, begins after the first byte and ends within the
\* buffer, and the extractor's cursor stays within the span.
C38_CursorsInRange ==
    /\ pc # "abort"
    /\ AtLineEnd => end >= 1 /\ start <= end - 1 /\ end - 1 <= Len(request)
    /\ AtLastLine => start <= CleanEnd /\ CleanEnd <= Len(request)
    /\ AtTokenIndex => start_boundary <= end
    /\ InLoop /\ parser_mode.tag = "Boundaries" /\ multipart_section = "End"
          /\ byte = LF /\ last_was_carriage_return => end >= 1
    /\ AtClosingMatch =>
          /\ 0 < start_data
          /\ start_data < end_data
          /\ end_data < Len(request)
          /\ BlobLoop(Slice(request, start_data, end_data), 0, 0,
                      EmptyMap).start <= end_data - start_data

\* The token is indexed at its first byte, with start_boundary at the
\* current position, in a request cut short.
C38_Witness ==
    /\ AtTokenIndex
    /\ multipart_section = "Start"
    /\ end = start_boundary
    /\ test.family = "cut"
    /\ ~test.null
    /\ end + 1 = Len(request)

====
